---- MODULE Spec2Model ----
(***************************************************************************)
(* A model of http_dir: the ServeDir / ServeFile request handler, the      *)
(* open-file pipeline, the streaming body adapter and the filesystem       *)
(* backends (on-disk, embedded, single-file adapter).                      *)
(*                                                                         *)
(* Text is modelled structurally.  A file name is the sequence of its      *)
(* dot-separated pieces ("hello.txt" is <<"hello","txt">>, "foo..gz" is    *)
(* <<"foo","","gz">>, ".." is <<"","","">>), so that Path::extension and   *)
(* Path::set_extension are computed as std computes them.  A path is the   *)
(* sequence of its components.  Bytes are small integers.  A modification  *)
(* time is whole seconds plus a flag for a non-zero sub-second part.       *)
(* The host is a Unix build.                                               *)
(***************************************************************************)
EXTENDS Integers, Sequences, FiniteSets, TLC

\* handler and task are the handler and the request it is serving; opened is
\* an embedded file a program holds and drives through AsyncRead and
\* AsyncSeek on its own.  peer is a second request in flight on the same
\* handler, and files the file objects the two requests have open.
VARIABLES handler, task, opened, peer, files

vars == <<handler, task, opened, peer, files>>

\* ------------------------------------------------------------------ bounds

\* Largest buf_chunk_size a handler is configured with (1..MaxChunk).
MaxChunk == 2
\* Dates carried by If-Modified-Since / If-Unmodified-Since are 0..MaxTime.
MaxTime == 2
\* Byte positions named in Range headers are 0..MaxPos.
MaxPos == 3
\* The largest usize: positions and lengths are 0..MaxUsize.
MaxUsize == 5
\* A response body is read until it ends or has delivered MaxBody bytes.
MaxBody == 4

\* ------------------------------------------------------------ names, paths

Front(s) == SubSeq(s, 1, Len(s) - 1)
Last(s) == s[Len(s)]

EmptyStr == <<"">>
Dot == <<"", "">>
DotDot == <<"", "", "">>
\* The piece a leading "/" of the decoded text yields.
RootMark == <<"/">>

Assets == <<"assets">>
HelloTxt == <<"hello", "txt">>
HelloTxtGz == <<"hello", "txt", "gz">>
HelloTxtBr == <<"hello", "txt", "br">>
Foo == <<"foo">>
FooGz == <<"foo", "gz">>
Sub == <<"sub">>
IndexHtml == <<"index", "html">>
LockedTxt == <<"locked", "txt">>
\* Files the host has trouble with: broken.txt.gz cannot be opened or stat'ed,
\* data.txt.gz may not be read, flaky.txt opens but its metadata cannot be
\* had, tape.txt opens but does not seek and cannot be stat'ed.
BrokenTxt == <<"broken", "txt">>
BrokenTxtGz == <<"broken", "txt", "gz">>
DataTxt == <<"data", "txt">>
DataTxtGz == <<"data", "txt", "gz">>
FlakyTxt == <<"flaky", "txt">>
TapeTxt == <<"tape", "txt">>
SecretTxt == <<"secret", "txt">>
\* Names with a backslash in them: a\b.txt, which is there, and c\d.txt.
ABackslashBTxt == <<"a\\b", "txt">>
CBackslashDTxt == <<"c\\d", "txt">>
MissingTxt == <<"missing", "txt">>

\* std::path::Component of one piece of the decoded text (Unix).
Component(piece) ==
    IF piece = RootMark THEN [kind |-> "RootDir", name |-> piece]
    ELSE IF piece = DotDot THEN [kind |-> "ParentDir", name |-> piece]
    ELSE IF piece = Dot THEN [kind |-> "CurDir", name |-> piece]
    ELSE [kind |-> "Normal", name |-> piece]

\* Path::components: a "." that is not leading is dropped.
RECURSIVE PathComponents(_, _)
PathComponents(pieces, leading) ==
    IF pieces = <<>> THEN <<>>
    ELSE IF Head(pieces) = Dot /\ ~leading THEN PathComponents(Tail(pieces), FALSE)
    ELSE <<Component(Head(pieces))>> \o PathComponents(Tail(pieces), FALSE)

\* Path::new(text): a path is kept as its components.
PathNew(pieces) == PathComponents(pieces, TRUE)

\* Path::file_name is Some iff the last component is Normal.
HasFileName(path) == path # <<>> /\ Last(path).kind = "Normal"

\* A name whose only dot is its first character has no extension.
IsDotFile(name) == Len(name) = 2 /\ name[1] = ""

\* Path::extension of a file name: <<>> is None, <<e>> is Some(e).
NameExtension(name) ==
    IF Len(name) >= 2 /\ ~IsDotFile(name) THEN <<Last(name)>> ELSE <<>>

\* Path::file_stem of a file name.
NameStem(name) ==
    IF Len(name) >= 2 /\ ~IsDotFile(name) THEN Front(name) ELSE name

PathExtension(path) ==
    IF HasFileName(path) THEN NameExtension(Last(path).name) ELSE <<>>

\* PathBuf::set_extension: no-op without a file name; otherwise truncate to
\* the stem and, for a non-empty extension, append "." and the extension.
SetExtension(path, ext) ==
    IF ~HasFileName(path) THEN path
    ELSE LET stem == NameStem(Last(path).name)
             name == IF ext = EmptyStr THEN stem ELSE stem \o ext
         IN  Front(path) \o <<[kind |-> "Normal", name |-> name]>>

\* PathBuf::push of a relative file name.
PathPush(path, name) == path \o <<[kind |-> "Normal", name |-> name]>>

\* ------------------------------------------------------------- timestamps

NoTime == [known |-> FALSE, secs |-> 0, frac |-> FALSE]
Time(s, f) == [known |-> TRUE, secs |-> s, frac |-> f]

\* --------------------------------------------------------- the file trees

\* The host filesystem, by absolute path.  The served base is /assets.
HostTree ==
    { [path |-> <<Assets>>, dir |-> TRUE, bytes |-> <<>>,
       mtime |-> Time(0, FALSE), readable |-> TRUE],
      [path |-> <<Assets, HelloTxt>>, dir |-> FALSE, bytes |-> <<10, 11, 12>>,
       mtime |-> Time(1, TRUE), readable |-> TRUE],
      [path |-> <<Assets, HelloTxtGz>>, dir |-> FALSE, bytes |-> <<20, 21>>,
       mtime |-> Time(2, FALSE), readable |-> TRUE],
      [path |-> <<Assets, HelloTxtBr>>, dir |-> FALSE, bytes |-> <<30>>,
       mtime |-> Time(1, FALSE), readable |-> TRUE],
      [path |-> <<Assets, Foo>>, dir |-> FALSE, bytes |-> <<40, 41>>,
       mtime |-> Time(1, FALSE), readable |-> TRUE],
      [path |-> <<Assets, FooGz>>, dir |-> FALSE, bytes |-> <<50>>,
       mtime |-> Time(1, FALSE), readable |-> TRUE],
      [path |-> <<Assets, Sub>>, dir |-> TRUE, bytes |-> <<>>,
       mtime |-> Time(0, FALSE), readable |-> TRUE],
      [path |-> <<Assets, Sub, IndexHtml>>, dir |-> FALSE, bytes |-> <<60, 61>>,
       mtime |-> Time(0, TRUE), readable |-> TRUE],
      [path |-> <<Assets, LockedTxt>>, dir |-> FALSE, bytes |-> <<70>>,
       mtime |-> Time(1, FALSE), readable |-> FALSE],
      [path |-> <<Assets, ABackslashBTxt>>, dir |-> FALSE, bytes |-> <<80>>,
       mtime |-> Time(1, FALSE), readable |-> TRUE],
      [path |-> <<Assets, BrokenTxt>>, dir |-> FALSE, bytes |-> <<81>>,
       mtime |-> Time(1, FALSE), readable |-> TRUE],
      [path |-> <<Assets, BrokenTxtGz>>, dir |-> FALSE, bytes |-> <<82>>,
       mtime |-> Time(1, FALSE), readable |-> TRUE],
      [path |-> <<Assets, DataTxt>>, dir |-> FALSE, bytes |-> <<83>>,
       mtime |-> Time(1, FALSE), readable |-> TRUE],
      [path |-> <<Assets, DataTxtGz>>, dir |-> FALSE, bytes |-> <<84>>,
       mtime |-> Time(1, FALSE), readable |-> FALSE],
      [path |-> <<Assets, FlakyTxt>>, dir |-> FALSE, bytes |-> <<85, 86>>,
       mtime |-> Time(1, FALSE), readable |-> TRUE],
      [path |-> <<Assets, TapeTxt>>, dir |-> FALSE, bytes |-> <<87, 88>>,
       mtime |-> Time(1, FALSE), readable |-> TRUE],
      [path |-> <<SecretTxt>>, dir |-> FALSE, bytes |-> <<99>>,
       mtime |-> Time(1, FALSE), readable |-> TRUE] }

\* The embedded tree, by path relative to its root.  foo carries no metadata.
EmbedTree ==
    { [path |-> <<HelloTxt>>, dir |-> FALSE, bytes |-> <<10, 11, 12>>,
       mtime |-> Time(1, TRUE), readable |-> TRUE],
      [path |-> <<HelloTxtGz>>, dir |-> FALSE, bytes |-> <<20, 21>>,
       mtime |-> Time(2, FALSE), readable |-> TRUE],
      [path |-> <<HelloTxtBr>>, dir |-> FALSE, bytes |-> <<30>>,
       mtime |-> Time(1, FALSE), readable |-> TRUE],
      [path |-> <<Foo>>, dir |-> FALSE, bytes |-> <<40, 41>>,
       mtime |-> NoTime, readable |-> TRUE],
      [path |-> <<FooGz>>, dir |-> FALSE, bytes |-> <<50>>,
       mtime |-> Time(1, FALSE), readable |-> TRUE],
      [path |-> <<ABackslashBTxt>>, dir |-> FALSE, bytes |-> <<80>>,
       mtime |-> Time(1, FALSE), readable |-> TRUE],
      [path |-> <<Sub>>, dir |-> TRUE, bytes |-> <<>>,
       mtime |-> NoTime, readable |-> TRUE],
      [path |-> <<Sub, IndexHtml>>, dir |-> FALSE, bytes |-> <<60, 61>>,
       mtime |-> Time(0, TRUE), readable |-> TRUE] }

\* The calls the host fails with an I/O error of another kind than NotFound
\* and PermissionDenied: open and stat by path, fstat and seek on an open file.
HostFaults ==
    { [path |-> <<Assets, BrokenTxtGz>>, op |-> "open", kind |-> "Other"],
      [path |-> <<Assets, BrokenTxtGz>>, op |-> "stat", kind |-> "Other"],
      [path |-> <<Assets, FlakyTxt>>, op |-> "fstat", kind |-> "Other"],
      [path |-> <<Assets, TapeTxt>>, op |-> "seek", kind |-> "Other"],
      [path |-> <<Assets, TapeTxt>>, op |-> "stat", kind |-> "Other"] }

\* The kind of error the host fails op on path with; "" when it does not.
HostFault(path, op) ==
    IF \E f \in HostFaults : f.path = path /\ f.op = op
    THEN (CHOOSE f \in HostFaults : f.path = path /\ f.op = op).kind
    ELSE ""

NoEntry ==
    [path |-> <<>>, dir |-> FALSE, bytes |-> <<>>, mtime |-> NoTime, readable |-> FALSE]

Lookup(tree, p) ==
    IF \E e \in tree : e.path = p THEN CHOOSE e \in tree : e.path = p ELSE NoEntry

Exists(tree, p) == \E e \in tree : e.path = p

\* The host resolves ".." against the directories walked so far.
RECURSIVE HostResolve(_, _)
HostResolve(names, acc) ==
    IF names = <<>> THEN acc
    ELSE IF Head(names) = DotDot
         THEN HostResolve(Tail(names), IF acc = <<>> THEN acc ELSE Front(acc))
         ELSE HostResolve(Tail(names), acc \o <<Head(names)>>)

\* Whether a host path lies under the served base directory.
UnderBase(abs) == Len(abs) >= 1 /\ abs[1] = Assets

\* ------------------------------------------------- filesystem abstraction

\* fs::Metadata
Metadata(modified, len) == [modified |-> modified, len |-> len]
NoMeta == Metadata(NoTime, 0)

\* An opened file: the tree it lives in, its key there, and its read position.
NoFile == [tree |-> "none", path |-> <<>>, index |-> 0]
FileBytes(file) ==
    IF file.tree = "host" THEN Lookup(HostTree, file.path).bytes
    ELSE IF file.tree = "embed" THEN Lookup(EmbedTree, file.path).bytes
    ELSE <<>>

\* The outcome of one Filesystem call: err is "" on success, else the
\* io::ErrorKind; host lists the host-filesystem calls it made.
FsOk(file, meta, isdir, host) ==
    [err |-> "", file |-> file, meta |-> meta, isdir |-> isdir, host |-> host]
FsErr(kind, host) ==
    [err |-> kind, file |-> NoFile, meta |-> NoMeta, isdir |-> FALSE, host |-> host]

\* --------------------------------------------------------- on-disk backend

\* The inner check of build_and_validate_path: the component, parsed as a
\* path of its own, has only Normal components.
AllNormal(name) == Component(name).kind = "Normal"

RECURSIVE BuildPath(_, _, _)
BuildPath(comps, acc, rejectParent) ==
    IF comps = <<>> THEN [ok |-> TRUE, path |-> acc]
    ELSE LET c == Head(comps)
         IN  IF c.kind = "Normal"
             THEN IF AllNormal(c.name)
                  THEN BuildPath(Tail(comps), acc \o <<c.name>>, rejectParent)
                  ELSE [ok |-> FALSE, path |-> acc]
             ELSE IF c.kind = "CurDir"
             THEN BuildPath(Tail(comps), acc, rejectParent)
             ELSE IF c.kind = "ParentDir" /\ ~rejectParent
             THEN BuildPath(Tail(comps), acc \o <<c.name>>, rejectParent)
             ELSE [ok |-> FALSE, path |-> acc]

\* A build_and_validate_path that lets ".." through to the host.
build_and_validate_path_parent_allowed(path) == BuildPath(path, <<Assets>>, FALSE)

\* DiskFilesystem::build_and_validate_path, with base /assets.
build_and_validate_path(path) == BuildPath(path, <<Assets>>, TRUE)

HostEntry(abs) == Lookup(HostTree, HostResolve(abs, <<>>))
HostExists(abs) == Exists(HostTree, HostResolve(abs, <<>>))

\* tokio::fs::File::open on the host.
HostOpen(abs) ==
    LET log == <<[op |-> "open", path |-> abs]>>
    IN  IF ~HostExists(abs) THEN FsErr("NotFound", log)
        ELSE IF HostFault(HostResolve(abs, <<>>), "open") # ""
        THEN FsErr(HostFault(HostResolve(abs, <<>>), "open"), log)
        ELSE IF ~HostEntry(abs).readable THEN FsErr("PermissionDenied", log)
        ELSE FsOk([tree |-> "host", path |-> HostResolve(abs, <<>>), index |-> 0],
                  NoMeta, FALSE, log)

\* tokio::fs::metadata on the host.
HostStat(abs) ==
    LET log == <<[op |-> "stat", path |-> abs]>>
        e == HostEntry(abs)
    IN  IF ~HostExists(abs) THEN FsErr("NotFound", log)
        ELSE IF HostFault(HostResolve(abs, <<>>), "stat") # ""
        THEN FsErr(HostFault(HostResolve(abs, <<>>), "stat"), log)
        ELSE FsOk(NoFile, Metadata(e.mtime, Len(e.bytes)), e.dir, log)

\* DiskFilesystem::open
DiskOpen(path) ==
    LET b == build_and_validate_path(path)
    IN  IF ~b.ok THEN FsErr("NotFound", <<>>) ELSE HostOpen(b.path)

\* DiskFilesystem::is_dir
DiskIsDir(path) ==
    LET b == build_and_validate_path(path)
    IN  IF ~b.ok THEN FsErr("NotFound", <<>>) ELSE HostStat(b.path)

\* DiskFilesystem::metadata
DiskMetadata(path) ==
    LET b == build_and_validate_path(path)
        r == HostStat(b.path)
    IN  IF ~b.ok THEN FsErr("NotFound", <<>>)
        ELSE IF r.err # "" THEN r
        ELSE FsOk(NoFile, r.meta, FALSE, r.host)

\* -------------------------------------------------------- embedded backend

RECURSIVE CompNames(_)
CompNames(path) ==
    IF path = <<>> THEN <<>> ELSE <<Head(path).name>> \o CompNames(Tail(path))

\* include_dir::Dir::get_entry: an entry whose path equals the given path,
\* component by component.
EmbedHas(path) ==
    /\ \A i \in 1..Len(path) : path[i].kind = "Normal"
    /\ Exists(EmbedTree, CompNames(path))
EmbedEntry(path) == Lookup(EmbedTree, CompNames(path))

\* IncludeDirFile::_metadata
IncludeDirFileMetadata(file) ==
    LET e == Lookup(EmbedTree, file.path)
    IN  Metadata(e.mtime, Len(e.bytes))

\* IncludeDirFilesystem::open
EmbedOpen(path) ==
    IF EmbedHas(path) /\ ~EmbedEntry(path).dir
    THEN FsOk([tree |-> "embed", path |-> CompNames(path), index |-> 0],
              NoMeta, FALSE, <<>>)
    ELSE FsErr("NotFound", <<>>)

\* IncludeDirFilesystem::is_dir
EmbedIsDir(path) ==
    IF EmbedHas(path) THEN FsOk(NoFile, NoMeta, EmbedEntry(path).dir, <<>>)
    ELSE FsErr("NotFound", <<>>)

\* IncludeDirFilesystem::metadata
EmbedMetadata(path) ==
    IF EmbedHas(path) /\ ~EmbedEntry(path).dir
    THEN FsOk(NoFile,
              IncludeDirFileMetadata([tree |-> "embed", path |-> CompNames(path),
                                      index |-> 0]),
              FALSE, <<>>)
    ELSE FsErr("NotFound", <<>>)

\* ------------------------------------------------------ single-file adapter

\* A filesystem capability: the backend, and the pinned path when it is
\* wrapped in a SingleFileFilesystem.
PlainFs(backend) == [backend |-> backend, single |-> FALSE, file_path |-> <<>>]
SingleFileFilesystem(file_path, backend) ==
    [backend |-> backend, single |-> TRUE, file_path |-> file_path]

\* Filesystem::open, through the adapter when there is one.
FsOpen(fs, path) ==
    IF fs.single /\ fs.file_path # path THEN FsErr("NotFound", <<>>)
    ELSE IF fs.backend = "disk" THEN DiskOpen(path) ELSE EmbedOpen(path)

\* Filesystem::is_dir
FsIsDir(fs, path) ==
    IF fs.single /\ fs.file_path # path THEN FsErr("NotFound", <<>>)
    ELSE IF fs.backend = "disk" THEN DiskIsDir(path) ELSE EmbedIsDir(path)

\* Filesystem::metadata
FsMetadata(fs, path) ==
    IF fs.single /\ fs.file_path # path THEN FsErr("NotFound", <<>>)
    ELSE IF fs.backend = "disk" THEN DiskMetadata(path) ELSE EmbedMetadata(path)

\* FileExt::metadata of an opened file.
FileMetadata(file) ==
    IF file.tree = "host"
    THEN LET e == Lookup(HostTree, file.path) IN Metadata(e.mtime, Len(e.bytes))
    ELSE IncludeDirFileMetadata(file)

\* The error file.metadata() ("fstat") or a seek of an opened file fails
\* with: a file on disk fails as the host does, an embedded file never.
FileFault(file, op) == IF file.tree = "host" THEN HostFault(file.path, op) ELSE ""

\* --------------------------------------------------- conditional headers

\* LastModified::from(SystemTime): an HTTP date keeps whole seconds; -1 is None.
LastModified(modified) == IF modified.known THEN modified.secs ELSE -1

\* IfUnmodifiedSince::precondition_passes
precondition_passes(since, last_modified) == since >= last_modified

\* IfModifiedSince::is_modified
is_modified(since, last_modified) == since < last_modified

\* A check that asks for the opposite of the If-Unmodified-Since precondition.
check_modified_headers_inverted(modified, if_unmodified_since, if_modified_since) ==
    IF if_unmodified_since # -1
       /\ (modified # -1 /\ precondition_passes(if_unmodified_since, modified))
    THEN "PreconditionFailed"
    ELSE IF if_modified_since # -1
            /\ (modified # -1 /\ ~is_modified(if_modified_since, modified))
    THEN "NotModified"
    ELSE ""

\* A check that takes "modified" for "not modified".
check_modified_headers_unnegated(modified, if_unmodified_since, if_modified_since) ==
    IF if_unmodified_since # -1
       /\ ~(modified # -1 /\ precondition_passes(if_unmodified_since, modified))
    THEN "PreconditionFailed"
    ELSE IF if_modified_since # -1
            /\ (modified # -1 /\ is_modified(if_modified_since, modified))
    THEN "NotModified"
    ELSE ""

\* A check that looks at If-Modified-Since before If-Unmodified-Since.
check_modified_headers_swapped(modified, if_unmodified_since, if_modified_since) ==
    IF if_modified_since # -1
       /\ (modified # -1 /\ ~is_modified(if_modified_since, modified))
    THEN "NotModified"
    ELSE IF if_unmodified_since # -1
            /\ ~(modified # -1 /\ precondition_passes(if_unmodified_since, modified))
    THEN "PreconditionFailed"
    ELSE ""

\* open_file::check_modified_headers: "" is None.  A header is -1 when absent.
check_modified_headers(modified, if_unmodified_since, if_modified_since) ==
    IF if_unmodified_since # -1
       /\ ~(modified # -1 /\ precondition_passes(if_unmodified_since, modified))
    THEN "PreconditionFailed"
    ELSE IF if_modified_since # -1
            /\ (modified # -1 /\ ~is_modified(if_modified_since, modified))
    THEN "NotModified"
    ELSE ""

\* ------------------------------------------------------ content encodings

\* The derived order of the Encoding enum: ties in q go to the larger.
EncodingRank(e) ==
    IF e = "br" THEN 3 ELSE IF e = "gzip" THEN 2 ELSE IF e = "deflate" THEN 1 ELSE 0

\* PrecompressedVariants
Variants(gzip, deflate, br) == [gzip |-> gzip, deflate |-> deflate, br |-> br]

\* Encoding::parse: a coding the policy does not allow is dropped.
EncodingSupported(e, supported) ==
    \/ e = "identity"
    \/ e = "gzip" /\ supported.gzip
    \/ e = "deflate" /\ supported.deflate
    \/ e = "br" /\ supported.br

\* content_encoding::encodings: the Accept-Encoding entries the policy allows.
RECURSIVE encodings(_, _)
encodings(accept, supported) ==
    IF accept = <<>> THEN <<>>
    ELSE IF EncodingSupported(Head(accept).enc, supported)
         THEN <<Head(accept)>> \o encodings(Tail(accept), supported)
         ELSE encodings(Tail(accept), supported)

\* Encoding::preferred_encoding: the q > 0 entry of greatest (q, encoding);
\* "" is None.
EncodingPreferred(negotiated) ==
    LET live == { i \in 1..Len(negotiated) : negotiated[i].q > 0 }
        Better(i, j) ==
            \/ negotiated[i].q > negotiated[j].q
            \/ /\ negotiated[i].q = negotiated[j].q
               /\ EncodingRank(negotiated[i].enc) >= EncodingRank(negotiated[j].enc)
    IN  IF live = {} THEN ""
        ELSE negotiated[CHOOSE i \in live : \A j \in live : Better(i, j)].enc

\* Encoding::to_file_extension: the text ".gz", ".zz" or ".br"; <<>> is None.
to_file_extension(e) ==
    IF e = "gzip" THEN <<"", "gz">>
    ELSE IF e = "deflate" THEN <<"", "zz">>
    ELSE IF e = "br" THEN <<"", "br">>
    ELSE <<>>

\* Vec::retain(|(e, _)| e != encoding)
RECURSIVE Retain(_, _)
Retain(negotiated, encoding) ==
    IF negotiated = <<>> THEN <<>>
    ELSE IF Head(negotiated).enc # encoding
         THEN <<Head(negotiated)>> \o Retain(Tail(negotiated), encoding)
         ELSE Retain(Tail(negotiated), encoding)

\* open_file::preferred_encoding: the preferred encoding, and the path with
\* the encoding's file extension pushed after its own extension.  The new
\* extension is the text of the old one followed by ".gz": the old one
\* alone when there is none.
preferred_encoding(path, negotiated) ==
    LET encoding == EncodingPreferred(negotiated)
        file_extension == to_file_extension(encoding)
        new_extension ==
            IF PathExtension(path) # <<>>
            THEN PathExtension(path) \o Tail(file_extension)
            ELSE file_extension
    IN  [path |-> IF file_extension # <<>> THEN SetExtension(path, new_extension)
                  ELSE path,
         encoding |-> encoding]

\* ------------------------------------------------------------- MIME types

\* mime_guess::from_path(..).first_raw(), or application/octet-stream.
MimeGuess(path) ==
    LET ext == PathExtension(path)
    IN  IF ext = <<"txt">> THEN "text/plain"
        ELSE IF ext = <<"html">> THEN "text/html"
        ELSE IF ext = <<"gz">> THEN "application/gzip"
        ELSE "application/octet-stream"

\* ----------------------------------------------------------- Range header

\* A Range header: kind "none" (absent), "garbage" (not parseable) or "bytes"
\* with its specs in order: [from, to] is "from-to", to = -1 is "from-",
\* from = -1 is the suffix "-to".
NoRangeHeader == [kind |-> "none", specs |-> <<>>]
Bytes(specs) == [kind |-> "bytes", specs |-> specs]

RangeStart(spec, size) == IF spec.from = -1 THEN size - spec.to ELSE spec.from
RangeEnd(spec, size) == IF spec.from = -1 \/ spec.to = -1 THEN size - 1 ELSE spec.to

RangeSpecValid(spec, size) ==
    /\ spec.from = -1 => (spec.to >= 1 /\ spec.to <= size)
    /\ RangeStart(spec, size) >= 0
    /\ RangeStart(spec, size) < size
    /\ RangeEnd(spec, size) < size
    /\ RangeStart(spec, size) <= RangeEnd(spec, size)

RangesOverlap(specs, size) ==
    \E i, j \in 1..Len(specs) :
        /\ i < j
        /\ RangeStart(specs[i], size) <= RangeEnd(specs[j], size)
        /\ RangeStart(specs[j], size) <= RangeEnd(specs[i], size)

\* The result of try_parse_range: kind "none", "err" or "ok" with the ranges.
NoRange == [kind |-> "none", ranges |-> <<>>]
RangeErr == [kind |-> "err", ranges |-> <<>>]

\* open_file::try_parse_range: parse_range_header, then validate(file_size).
try_parse_range(header, file_size) ==
    IF header.kind = "none" THEN NoRange
    ELSE IF header.kind = "garbage" \/ header.specs = <<>> THEN RangeErr
    ELSE IF \E i \in 1..Len(header.specs) : ~RangeSpecValid(header.specs[i], file_size)
    THEN RangeErr
    ELSE IF RangesOverlap(header.specs, file_size) THEN RangeErr
    ELSE [kind |-> "ok",
          ranges |-> [i \in 1..Len(header.specs) |->
                        [start |-> RangeStart(header.specs[i], file_size),
                         end |-> RangeEnd(header.specs[i], file_size)]]]

\* ------------------------------------------------------------------- URIs

\* A request URI: the raw segments of its path as sent and whether the path
\* ends in "/", its query, and its scheme and authority; "" is an absent part.
UriParts(scheme, authority, segs, slash, query) ==
    [segs |-> segs, slash |-> slash, query |-> query,
     scheme |-> scheme, authority |-> authority]

\* A URI in origin form without a query.
Uri(segs, slash) == UriParts("", "", segs, slash, "")

\* uri.path().ends_with('/'): the path of a URI without segments is "/".
EndsWithSlash(uri) == uri.slash \/ uri.segs = <<>>

\* percent_decode(..).decode_utf8() of one raw segment: the pieces of the
\* decoded text between its slashes, or a failure.
PercentDecode(seg) ==
    IF seg = "hello.txt" THEN [ok |-> TRUE, pieces |-> <<HelloTxt>>]
    ELSE IF seg = "foo" THEN [ok |-> TRUE, pieces |-> <<Foo>>]
    ELSE IF seg = "sub" THEN [ok |-> TRUE, pieces |-> <<Sub>>]
    ELSE IF seg = "missing.txt" THEN [ok |-> TRUE, pieces |-> <<MissingTxt>>]
    ELSE IF seg = "locked.txt" THEN [ok |-> TRUE, pieces |-> <<LockedTxt>>]
    ELSE IF seg = "secret.txt" THEN [ok |-> TRUE, pieces |-> <<SecretTxt>>]
    ELSE IF seg = "index.html" THEN [ok |-> TRUE, pieces |-> <<IndexHtml>>]
    ELSE IF seg = "broken.txt" THEN [ok |-> TRUE, pieces |-> <<BrokenTxt>>]
    ELSE IF seg = "broken.txt.gz" THEN [ok |-> TRUE, pieces |-> <<BrokenTxtGz>>]
    ELSE IF seg = "data.txt" THEN [ok |-> TRUE, pieces |-> <<DataTxt>>]
    ELSE IF seg = "flaky.txt" THEN [ok |-> TRUE, pieces |-> <<FlakyTxt>>]
    ELSE IF seg = "tape.txt" THEN [ok |-> TRUE, pieces |-> <<TapeTxt>>]
    ELSE IF seg = "a%5Cb.txt" THEN [ok |-> TRUE, pieces |-> <<ABackslashBTxt>>]
    ELSE IF seg = "c%5Cd.txt" THEN [ok |-> TRUE, pieces |-> <<CBackslashDTxt>>]
    ELSE IF seg = ".." THEN [ok |-> TRUE, pieces |-> <<DotDot>>]
    ELSE IF seg = "%2e%2e" THEN [ok |-> TRUE, pieces |-> <<DotDot>>]
    ELSE IF seg = "." THEN [ok |-> TRUE, pieces |-> <<Dot>>]
    ELSE IF seg = "..%2Fsecret.txt" THEN [ok |-> TRUE, pieces |-> <<DotDot, SecretTxt>>]
    ELSE IF seg = "%2Fsecret.txt" THEN [ok |-> TRUE, pieces |-> <<RootMark, SecretTxt>>]
    ELSE [ok |-> FALSE, pieces |-> <<>>]

\* The decoded request path: the URI path without its leading "/", decoded.
RECURSIVE DecodePathSegs(_)
DecodePathSegs(segs) ==
    IF segs = <<>> THEN [ok |-> TRUE, pieces |-> <<>>]
    ELSE LET h == PercentDecode(Head(segs))
             t == DecodePathSegs(Tail(segs))
         IN  [ok |-> h.ok /\ t.ok, pieces |-> h.pieces \o t.pieces]

\* append_slash_on_path: the URI built anew from the scheme and the authority,
\* if there, and "{path}/?{query}" or "{path}/".
append_slash_on_path(uri) ==
    UriParts(uri.scheme, uri.authority, uri.segs, TRUE, uri.query)

\* -------------------------------------------------------------- responses

NoContentRange == [kind |-> "none", start |-> 0, end |-> 0, size |-> 0]
NoLocation == [set |-> FALSE, uri |-> Uri(<<>>, FALSE)]

\* Response::builder().status(status).body(empty_body()): a header is "" or
\* -1 when absent.  source tells the handler's own responses from the
\* fallback's.  body is "empty", "text" (the literal in text) or "file" (the
\* opened file streamed through AsyncReadBody).
response_with_status(status) ==
    [status |-> status, source |-> "handler",
     content_type |-> "", accept_ranges |-> "", content_length |-> -1,
     content_encoding |-> "", last_modified |-> -1,
     content_range |-> NoContentRange, location |-> NoLocation, allow |-> "",
     body |-> "empty", text |-> ""]

NoResponse == response_with_status(0)

not_found == response_with_status(404)

\* What the fallback service answers: it is the user's, and here a stub that
\* answers 200 with a page, and to a HEAD the same without the page.
FallbackResponse(method) ==
    [response_with_status(200) EXCEPT
        !.source = "fallback",
        !.body = IF method = "HEAD" THEN "empty" ELSE "text",
        !.text = IF method = "HEAD" THEN "" ELSE "fallback"]

\* ----------------------------------------------------------- the request

\* A request: -1 is an absent If-(Un)modified-Since; accept_encoding lists
\* the Accept-Encoding entries as (coding, q in thousandths). Its body and
\* its extensions are texts, "" an empty body and no extensions.
Request(method, uri, accept_encoding, range, if_modified_since, if_unmodified_since) ==
    [method |-> method, uri |-> uri, accept_encoding |-> accept_encoding,
     range |-> range, if_modified_since |-> if_modified_since,
     if_unmodified_since |-> if_unmodified_since,
     body |-> "", extensions |-> ""]

\* The request with that body and those extensions.
WithBody(req, body, extensions) ==
    [req EXCEPT !.body = body, !.extensions = extensions]

\* Request::new(body): GET / without headers or extensions.
RequestNew(body) ==
    WithBody(Request("GET", Uri(<<>>, FALSE), <<>>, NoRangeHeader, -1, -1), body, "")

\* The headers of req on the request r.
WithHeadersOf(r, req) ==
    [r EXCEPT !.accept_encoding = req.accept_encoding, !.range = req.range,
              !.if_modified_since = req.if_modified_since,
              !.if_unmodified_since = req.if_unmodified_since]

\* A fallback request that is built with an empty body of its own.
FallbackRequestNoBody(req, body, extensions) ==
    [WithHeadersOf(RequestNew(""), req) EXCEPT
        !.method = req.method, !.uri = req.uri, !.extensions = extensions]

\* ServeDir::call, the closure that builds fallback_req from the body and the
\* extensions taken out of the request and from the request left.
FallbackRequest(req, body, extensions) ==
    [WithHeadersOf(RequestNew(body), req) EXCEPT
        !.method = req.method, !.uri = req.uri, !.extensions = extensions]

NoRequest == Request("", Uri(<<>>, FALSE), <<>>, NoRangeHeader, -1, -1)

\* ------------------------------------------------------------ the handler

DirectoryVariant(append) ==
    [kind |-> "Directory", append_index_html_on_directories |-> append, mime |-> ""]
SingleFileVariant(mime) ==
    [kind |-> "SingleFile", append_index_html_on_directories |-> FALSE, mime |-> mime]

\* ServeDir: fallback is whether one is configured.  The fallback is the
\* user's service: fallback_fails is whether it answers with an error, and
\* fallback_ready whether the instance in this handler's slot has reported
\* ready from poll_ready.
ServeDir(chunk, variants, variant, fallback, on_method, filesystem) ==
    [buf_chunk_size |-> chunk, precompressed_variants |-> variants,
     variant |-> variant, fallback |-> fallback,
     fallback_fails |-> FALSE, fallback_ready |-> FALSE,
     call_fallback_on_method_not_allowed |-> on_method, filesystem |-> filesystem]

\* #[derive(Clone)] on ServeDir: the clone holds a clone of the fallback, an
\* instance of its own that has not been polled.
Clone(h) == [h EXCEPT !.fallback_ready = FALSE]

\* Service::poll_ready: the fallback in the slot is polled (the stub is ready
\* at once); without a fallback the handler is ready as it is.
poll_ready(h) == IF h.fallback THEN [h EXCEPT !.fallback_ready = TRUE] ELSE h

\* ServeFile::new(path, filesystem) with the builder options applied.
ServeFile(pieces, backend, chunk, variants, fallback, on_method) ==
    ServeDir(chunk, variants, SingleFileVariant(MimeGuess(PathNew(pieces))),
             fallback, on_method, SingleFileFilesystem(PathNew(pieces), backend))

NoHandler ==
    ServeDir(1, Variants(FALSE, FALSE, FALSE), DirectoryVariant(TRUE), FALSE, FALSE,
             PlainFs("disk"))

\* ------------------------------------------------- the state of one request

\* The future ServeDir::call returns, and the response body after it: pc is
\* the point it is suspended at.  this is the handler's clone; path, negotiated
\* and encoding are the selection loop's; selected is the path the loop ended
\* on, file the file it opened and holding whether that file is still open;
\* limit is what Take still allows
\* (-1 without a limit) and buf_room the capacity left in ReaderStream's
\* buffer; sent is what the body has delivered; max_chunk the
\* longest chunk; fs_calls and host_calls list the Filesystem calls made and
\* the host calls they led to; error is the io::ErrorKind the future failed
\* with.  fallback_and_request is whether it is Some, taken_ready whether the
\* instance in it had been polled ready and fallback_req its request;
\* fallback_called lists the calls made of a fallback, each with the
\* readiness of the instance called and the request passed; outcome is what
\* the pipeline came to: the OpenFileOutput variant, the io::ErrorKind, or
\* "Undecodable" for a path that does not decode; path_to_file is the path
\* the selection loop is entered with.  Each fs_call carries the error it
\* ended with and the encoding it was made for; file_calls lists the metadata
\* and seek calls made of the opened file, with their errors.  req is the
\* request as Service::call received it, open_req the request rebuilt with
\* an empty body that open_file is called with.
IdleTask ==
    [pc |-> "idle", req |-> NoRequest, this |-> NoHandler,
     fallback_and_request |-> FALSE, taken_ready |-> FALSE,
     fallback_req |-> NoRequest, open_req |-> NoRequest,
     fallback_calls |-> 0, fallback_called |-> <<>>, outcome |-> "",
     path_to_file |-> <<>>,
     path |-> <<>>, range_header |-> NoRangeHeader,
     negotiated |-> <<>>, encoding |-> "", mime |-> "",
     extent |-> "", selected |-> <<>>, file |-> NoFile, holding |-> FALSE,
     meta |-> NoMeta,
     last_modified |-> -1, maybe_range |-> NoRange,
     resp |-> NoResponse, error |-> "",
     limit |-> -1, buf_room |-> 0, sent |-> <<>>, max_chunk |-> 0,
     fs_calls |-> <<>>, host_calls |-> <<>>, file_calls |-> <<>>]

\* A future that resolves with the opened file still held.
FinishHolding(t, resp) == [t EXCEPT !.pc = "done", !.resp = resp]

\* The future resolves to Ok(resp); every local, the opened file too, is dropped.
Finish(t, resp) == [t EXCEPT !.pc = "done", !.resp = resp, !.holding = FALSE]

\* The future resolves to Err(kind).
Fail(t, kind) == [t EXCEPT !.pc = "done", !.error = kind, !.holding = FALSE]

\* "fallback if present, else 404": ServeDir::call at a miss.
Miss(t) ==
    IF t.fallback_and_request THEN [t EXCEPT !.pc = "fallback", !.holding = FALSE]
    ELSE Finish(t, not_found)

\* A handler to which every error is a miss.
OnErrorAllMiss(t, kind) == Miss([t EXCEPT !.outcome = kind])

\* A handler to which only NotFound is a miss.
OnErrorNotFoundOnly(t, kind) ==
    IF kind = "NotFound" THEN Miss([t EXCEPT !.outcome = kind])
    ELSE Fail([t EXCEPT !.outcome = kind], kind)

\* ServeDir::call on Err(err) from the pipeline.
OnError(t, kind) ==
    IF kind \in {"NotFound", "PermissionDenied"} THEN Miss([t EXCEPT !.outcome = kind])
    ELSE Fail([t EXCEPT !.outcome = kind], kind)

\* ServeDir::call, the method gate.
MethodGate(t) ==
    IF t.req.method \notin {"GET", "HEAD"}
    THEN IF t.this.call_fallback_on_method_not_allowed
         THEN IF t.this.fallback THEN [t EXCEPT !.pc = "fallback"]
              ELSE [t EXCEPT !.pc = "decode"]
         ELSE Finish(t, [response_with_status(405) EXCEPT !.allow = "GET,HEAD"])
    ELSE [t EXCEPT !.pc = "decode"]

\* ServeDir::call from the fallback request to the call of open_file, and
\* open_file up to its first await.
PrepareAndDecode(t) ==
    LET body == t.req.body
        extensions == t.req.extensions
        req == WithBody(t.req, "", "")
        fallback_req == FallbackRequest(req, body, extensions)
        t1 == [t EXCEPT !.open_req = req,
                        !.fallback_and_request = t.this.fallback,
                        !.taken_ready = t.this.fallback /\ t.this.fallback_ready,
                        !.fallback_req = IF t.this.fallback THEN fallback_req
                                         ELSE NoRequest,
                        !.this = Clone(t.this)]
        path_decoded == DecodePathSegs(t.req.uri.segs)
        t2 == [t1 EXCEPT !.path = PathNew(path_decoded.pieces),
                         !.range_header = t.req.range,
                         !.negotiated = encodings(t.req.accept_encoding,
                                                  t.this.precompressed_variants)]
    IN  IF ~path_decoded.ok THEN Miss([t1 EXCEPT !.outcome = "Undecodable"])
        ELSE IF t.this.variant.kind = "Directory" THEN [t2 EXCEPT !.pc = "dircheck"]
        ELSE [t2 EXCEPT !.pc = "select", !.mime = t.this.variant.mime,
                        !.path_to_file = t2.path]

\* A directory check that goes on with the directory itself.
maybe_redirect_or_append_path_bare(is_dir, path_to_file, uri, append_index_html_on_directories) ==
    LET dir == is_dir.err = "" /\ is_dir.isdir
    IN  IF ~EndsWithSlash(uri)
        THEN [output |-> IF dir THEN "Redirect" ELSE "", path |-> path_to_file]
        ELSE IF dir /\ ~append_index_html_on_directories
        THEN [output |-> "FileNotFound", path |-> path_to_file]
        ELSE [output |-> "", path |-> path_to_file]

\* A directory check that gives up, as FileNotFound, when is_dir fails.
maybe_redirect_or_append_path_wary(is_dir, path_to_file, uri, append_index_html_on_directories) ==
    IF is_dir.err # "" THEN [output |-> "FileNotFound", path |-> path_to_file]
    ELSE IF ~EndsWithSlash(uri)
    THEN [output |-> IF is_dir.isdir THEN "Redirect" ELSE "", path |-> path_to_file]
    ELSE IF is_dir.isdir
    THEN IF append_index_html_on_directories
         THEN [output |-> "", path |-> PathPush(path_to_file, IndexHtml)]
         ELSE [output |-> "FileNotFound", path |-> path_to_file]
    ELSE [output |-> "", path |-> path_to_file]

\* maybe_redirect_or_append_path: "Redirect", "FileNotFound" or "" (None), and
\* the path to go on with.
maybe_redirect_or_append_path(is_dir, path_to_file, uri, append_index_html_on_directories) ==
    LET dir == is_dir.err = "" /\ is_dir.isdir
    IN  IF ~EndsWithSlash(uri)
        THEN [output |-> IF dir THEN "Redirect" ELSE "", path |-> path_to_file]
        ELSE IF dir
        THEN IF append_index_html_on_directories
             THEN [output |-> "", path |-> PathPush(path_to_file, IndexHtml)]
             ELSE [output |-> "FileNotFound", path |-> path_to_file]
        ELSE [output |-> "", path |-> path_to_file]

\* open_file for a Directory handler: the directory check, then the MIME type.
DirectoryStage(t) ==
    LET is_dir == FsIsDir(t.this.filesystem, t.path)
        m == maybe_redirect_or_append_path(is_dir, t.path, t.req.uri,
                 t.this.variant.append_index_html_on_directories)
        t1 == [t EXCEPT !.fs_calls = @ \o <<[op |-> "is_dir", path |-> t.path,
                                              err |-> is_dir.err, encoding |-> ""]>>,
                        !.host_calls = @ \o is_dir.host,
                        !.path = m.path]
    IN  IF m.output = "Redirect"
        THEN Finish([t1 EXCEPT !.outcome = "Redirect"],
                    [response_with_status(307) EXCEPT
                        !.location = [set |-> TRUE,
                                      uri |-> append_slash_on_path(t.req.uri)]])
        ELSE IF m.output = "FileNotFound"
        THEN Miss([t1 EXCEPT !.outcome = "FileNotFound"])
        ELSE [t1 EXCEPT !.pc = "select", !.mime = MimeGuess(m.path),
                        !.path_to_file = m.path]

\* A loop that leaves the negotiated list as it is when a variant is missing.
LoopTurnKeepsList(pe, res, negotiated) ==
    IF res.err = ""
    THEN [state |-> "break", path |-> pe.path, negotiated |-> negotiated,
          encoding |-> pe.encoding, tried |-> pe.path, res |-> res]
    ELSE IF pe.encoding # "" /\ res.err = "NotFound"
    THEN [state |-> "continue", path |-> SetExtension(pe.path, EmptyStr),
          negotiated |-> negotiated,
          encoding |-> pe.encoding, tried |-> pe.path, res |-> res]
    ELSE [state |-> "return", path |-> pe.path, negotiated |-> negotiated,
          encoding |-> pe.encoding, tried |-> pe.path, res |-> res]

\* One turn of the selection loop: state is "break" (res is the file or the
\* metadata), "continue" (with the path and the list to go on with) or
\* "return" (res.err is the error).
LoopTurn(pe, res, negotiated) ==
    IF res.err = ""
    THEN [state |-> "break", path |-> pe.path, negotiated |-> negotiated,
          encoding |-> pe.encoding, tried |-> pe.path, res |-> res]
    ELSE IF pe.encoding # "" /\ res.err = "NotFound"
    THEN [state |-> "continue", path |-> SetExtension(pe.path, EmptyStr),
          negotiated |-> Retain(negotiated, pe.encoding),
          encoding |-> pe.encoding, tried |-> pe.path, res |-> res]
    ELSE [state |-> "return", path |-> pe.path, negotiated |-> negotiated,
          encoding |-> pe.encoding, tried |-> pe.path, res |-> res]

\* A metadata selection that never looks for a precompressed sibling.
file_metadata_with_fallback_plain(filesystem, path, negotiated_encoding) ==
    LoopTurn([path |-> path, encoding |-> ""], FsMetadata(filesystem, path),
             negotiated_encoding)

\* One turn of the loop of open_file_with_fallback.
open_file_with_fallback(filesystem, path, negotiated_encoding) ==
    LET pe == preferred_encoding(path, negotiated_encoding)
    IN  LoopTurn(pe, FsOpen(filesystem, pe.path), negotiated_encoding)

\* One turn of the loop of file_metadata_with_fallback.
file_metadata_with_fallback(filesystem, path, negotiated_encoding) ==
    LET pe == preferred_encoding(path, negotiated_encoding)
    IN  LoopTurn(pe, FsMetadata(filesystem, pe.path), negotiated_encoding)

\* A builder whose 416 answers carry no Content-Range.
RangeNotSatisfiableBare(t, base, text) ==
    Finish(t, [base EXCEPT !.status = 416,
                  !.body = IF text = "" THEN "empty" ELSE "text",
                  !.text = text])

\* build_response, the 416 answers.
RangeNotSatisfiable(t, base, text) ==
    Finish(t, [base EXCEPT !.status = 416,
                  !.content_range = [kind |-> "star", start |-> 0, end |-> 0,
                                     size |-> t.meta.len],
                  !.body = IF text = "" THEN "empty" ELSE "text",
                  !.text = text])

\* build_response: the limit of a single range's body.
RangeBodyLimit(range, size) == range.end - range.start + 1

\* serve_dir::build_response
build_response(t) ==
    LET size == t.meta.len
        has_file == t.extent = "Full"
        base == [response_with_status(200) EXCEPT
                    !.content_type = t.mime, !.accept_ranges = "bytes",
                    !.content_encoding = t.encoding,
                    !.last_modified = t.last_modified]
        r == t.maybe_range
    IN  IF r.kind = "ok" /\ Len(r.ranges) > 1
        THEN RangeNotSatisfiable(t, base, "Cannot serve multipart range requests")
        ELSE IF r.kind = "ok" /\ Len(r.ranges) = 1
        THEN LET range == r.ranges[1]
                 resp == [base EXCEPT !.status = 206,
                            !.content_range = [kind |-> "range", start |-> range.start,
                                               end |-> range.end, size |-> size],
                            !.content_length = range.end - range.start + 1,
                            !.body = IF has_file THEN "file" ELSE "empty"]
             IN  IF has_file
                 THEN [t EXCEPT !.pc = "body", !.resp = resp,
                                !.limit = RangeBodyLimit(range, size)]
                 ELSE Finish(t, resp)
        ELSE IF r.kind = "ok"
        THEN RangeNotSatisfiable(t, base,
                 "No range found after parsing range header, please file an issue")
        ELSE IF r.kind = "err" THEN RangeNotSatisfiable(t, base, "")
        ELSE LET resp == [base EXCEPT !.content_length = size,
                            !.body = IF has_file THEN "file" ELSE "empty"]
             IN  IF has_file THEN [t EXCEPT !.pc = "body", !.resp = resp, !.limit = -1]
                 ELSE Finish(t, resp)

\* open_file once the metadata is at hand: the conditional headers, the
\* Range header, and for HEAD the response.
AfterMetadata(t) ==
    LET last_modified == LastModified(t.meta.modified)
        output == check_modified_headers(last_modified, t.req.if_unmodified_since,
                                         t.req.if_modified_since)
        maybe_range == try_parse_range(t.range_header, t.meta.len)
        t1 == [t EXCEPT !.last_modified = last_modified, !.maybe_range = maybe_range,
                        !.outcome = "FileOpened"]
    IN  IF output = "PreconditionFailed"
        THEN Finish([t EXCEPT !.outcome = output], response_with_status(412))
        ELSE IF output = "NotModified"
        THEN Finish([t EXCEPT !.outcome = output], response_with_status(304))
        ELSE IF t.extent = "Full" /\ maybe_range.kind = "ok" /\ Len(maybe_range.ranges) = 1
        THEN [t1 EXCEPT !.pc = "seek"]
        ELSE build_response(t1)

\* open_file at the await of the selection loop: open for GET, metadata for HEAD.
SelectStage(t) ==
    LET head == t.req.method = "HEAD"
        turn == IF head
                THEN file_metadata_with_fallback(t.this.filesystem, t.path, t.negotiated)
                ELSE open_file_with_fallback(t.this.filesystem, t.path, t.negotiated)
        t1 == [t EXCEPT !.fs_calls = @ \o <<[op |-> IF head THEN "metadata" ELSE "open",
                                              path |-> turn.tried,
                                              err |-> turn.res.err,
                                              encoding |-> turn.encoding]>>,
                        !.host_calls = @ \o turn.res.host,
                        !.path = turn.path, !.negotiated = turn.negotiated]
    IN  IF turn.state = "continue" THEN t1
        ELSE IF turn.state = "return" THEN OnError(t1, turn.res.err)
        ELSE IF head
        THEN AfterMetadata([t1 EXCEPT !.encoding = turn.encoding, !.extent = "Head",
                                      !.selected = turn.tried,
                                      !.meta = turn.res.meta])
        ELSE [t1 EXCEPT !.encoding = turn.encoding, !.extent = "Full",
                        !.selected = turn.tried,
                        !.file = turn.res.file, !.holding = TRUE, !.pc = "meta"]

\* open_file at file.metadata().await.
MetadataStage(t) ==
    LET err == FileFault(t.file, "fstat")
        t1 == [t EXCEPT !.file_calls = @ \o <<[op |-> "metadata", err |-> err]>>]
    IN  IF err # "" THEN OnError(t1, err)
        ELSE AfterMetadata([t1 EXCEPT !.meta = FileMetadata(t.file)])

\* SeekFrom::Start, ::End and ::Current with their offset.
SeekFrom(whence, offset) == [whence |-> whence, offset |-> offset]

\* usize::checked_add_signed: -1 is None.
checked_add_signed(n, d) == IF n + d < 0 \/ n + d > MaxUsize THEN -1 ELSE n + d

\* A start_seek that assigns the sum without checking it.
start_seek_unchecked(file, position) ==
    IF position.whence = "Start"
    THEN [file |-> [file EXCEPT !.index = position.offset], err |-> ""]
    ELSE IF position.whence = "End"
    THEN [file |-> [file EXCEPT !.index = Len(FileBytes(file)) + position.offset],
          err |-> ""]
    ELSE [file |-> [file EXCEPT !.index = file.index + position.offset], err |-> ""]

\* IncludeDirFile::start_seek: the file after it, and "" or the io::ErrorKind.
start_seek(file, position) ==
    IF position.whence = "Start"
    THEN [file |-> [file EXCEPT !.index = position.offset], err |-> ""]
    ELSE LET from == IF position.whence = "End" THEN Len(FileBytes(file))
                     ELSE file.index
             sum == checked_add_signed(from, position.offset)
         IN  IF sum = -1 THEN [file |-> file, err |-> "InvalidInput"]
             ELSE [file |-> [file EXCEPT !.index = sum], err |-> ""]

\* file.seek(SeekFrom::Start(start)) in open_file; a DiskFile seeks alike.
SeekStart(file, start) == start_seek(file, SeekFrom("Start", start)).file

\* open_file at file.seek(..).await, then the response.
SeekStage(t) ==
    LET err == FileFault(t.file, "seek")
        t1 == [t EXCEPT !.file_calls = @ \o <<[op |-> "seek", err |-> err]>>]
    IN  IF err # "" THEN OnError(t1, err)
        ELSE build_response([t1 EXCEPT !.file =
                                SeekStart(t.file, t.maybe_range.ranges[1].start)])

\* ------------------------------------------------------ the response body

Min(a, b) == IF a <= b THEN a ELSE b
Max(a, b) == IF a >= b THEN a ELSE b

\* The bytes an opened file has from its read position on.
Unread(file) ==
    LET data == FileBytes(file)
    IN  IF file.index >= Len(data) THEN <<>> ELSE SubSeq(data, file.index + 1, Len(data))

\* IncludeDirFile::poll_read into a buffer with room for `room` bytes: the
\* bytes at the read position, which stays where it is.
IncludeDirFilePollRead(file, room) ==
    LET n == Min(Len(Unread(file)), room)
    IN  [bytes |-> SubSeq(Unread(file), 1, n), file |-> file]

\* DiskFile::poll_read delivering n bytes.
DiskFilePollRead(file, n) ==
    [bytes |-> SubSeq(Unread(file), 1, n), file |-> [file EXCEPT !.index = @ + n]]

\* The room one read has: ReaderStream reserves buf_chunk_size bytes when its
\* buffer has no capacity left, and Take caps the read at what it still allows.
ReadRoom(t) ==
    LET room == IF t.buf_room = 0 THEN t.this.buf_chunk_size ELSE t.buf_room
    IN  IF t.limit = -1 THEN room ELSE Min(room, t.limit)

\* The lengths one read of the opened file may deliver: a disk read may be
\* short, an embedded read is not.
ReadSizes(t) ==
    LET most == Min(Len(Unread(t.file)), ReadRoom(t))
    IN  IF most = 0 THEN {0}
        ELSE IF t.file.tree = "embed" THEN {most}
        ELSE 1..most

\* AsyncReadBody::poll_data for a read of n bytes: a chunk, or the end of the
\* body at a read of nothing.
PollData(t, n) ==
    LET read == IF t.file.tree = "embed" THEN IncludeDirFilePollRead(t.file, ReadRoom(t))
                ELSE DiskFilePollRead(t.file, n)
        room == IF t.buf_room = 0 THEN t.this.buf_chunk_size ELSE t.buf_room
    IN  IF n = 0 THEN [t EXCEPT !.pc = "done", !.holding = FALSE]
        ELSE [t EXCEPT !.file = read.file,
                       !.sent = @ \o read.bytes,
                       !.max_chunk = Max(@, Len(read.bytes)),
                       !.limit = IF @ = -1 THEN -1 ELSE @ - Len(read.bytes),
                       !.buf_room = room - Len(read.bytes)]

\* ----------------------------------------------------------------- inputs

Policies ==
    { Variants(FALSE, FALSE, FALSE), Variants(TRUE, FALSE, FALSE),
      Variants(TRUE, FALSE, TRUE), Variants(TRUE, TRUE, TRUE) }

Backends == {"disk", "embed"}

\* The handlers: ServeDir::new with its builder options, and ServeFile::new
\* (which has no fallback) for hello.txt and for foo.
Handlers ==
    { ServeDir(c, v, DirectoryVariant(a), f, m, PlainFs(b)) :
        c \in 1..MaxChunk, v \in Policies, a \in BOOLEAN, f \in BOOLEAN,
        m \in BOOLEAN, b \in Backends }
    \cup
    { [ServeDir(c, v, DirectoryVariant(a), TRUE, m, PlainFs(b))
          EXCEPT !.fallback_fails = TRUE] :
        c \in 1..MaxChunk, v \in Policies, a \in BOOLEAN,
        m \in BOOLEAN, b \in Backends }
    \cup
    { ServeFile(<<n>>, b, c, v, FALSE, FALSE) :
        n \in {HelloTxt, Foo}, c \in 1..MaxChunk, v \in Policies, b \in Backends }

Coding(e, q) == [enc |-> e, q |-> q]

NoAccept == <<>>
AcceptGzip == <<Coding("gzip", 1000)>>

AcceptEncodings ==
    { NoAccept, AcceptGzip,
      <<Coding("gzip", 1000), Coding("br", 1000)>>,
      <<Coding("gzip", 1000), Coding("br", 500)>>,
      <<Coding("gzip", 0), Coding("deflate", 500)>>,
      <<Coding("identity", 1000), Coding("gzip", 500)>> }

UriHello == Uri(<<"hello.txt">>, FALSE)
UriFoo == Uri(<<"foo">>, FALSE)
UriSubSlash == Uri(<<"sub">>, TRUE)
UriTape == Uri(<<"tape.txt">>, FALSE)
UriMissing == Uri(<<"missing.txt">>, FALSE)
UriSubQuery == UriParts("", "", <<"sub">>, FALSE, "v=1")
UriSubAbsolute == UriParts("http", "example.com", <<"sub">>, FALSE, "v=1")

Uris ==
    { UriHello, UriFoo, UriSubSlash, UriSubQuery, UriSubAbsolute,
      [UriSubQuery EXCEPT !.slash = TRUE], [UriSubAbsolute EXCEPT !.slash = TRUE],
      Uri(<<"sub">>, FALSE), Uri(<<>>, TRUE),
      Uri(<<"missing.txt">>, FALSE), Uri(<<"locked.txt">>, FALSE),
      Uri(<<"..", "secret.txt">>, FALSE), Uri(<<"%2e%2e", "secret.txt">>, FALSE),
      Uri(<<"..%2Fsecret.txt">>, FALSE), Uri(<<"%2Fsecret.txt">>, FALSE),
      Uri(<<"sub", "..", "hello.txt">>, FALSE), Uri(<<".", "hello.txt">>, FALSE),
      Uri(<<"a%5Cb.txt">>, FALSE), Uri(<<"c%5Cd.txt">>, FALSE),
      Uri(<<"broken.txt">>, FALSE), Uri(<<"broken.txt.gz">>, FALSE),
      Uri(<<"data.txt">>, FALSE), Uri(<<"flaky.txt">>, FALSE), UriTape,
      Uri(<<"%ff">>, FALSE) }

Spec1(from, to) == [from |-> from, to |-> to]

RangeHeaders ==
    { Bytes(<<Spec1(s, e)>>) : s, e \in 0..MaxPos }
    \cup { Bytes(<<Spec1(1, -1)>>), Bytes(<<Spec1(-1, 1)>>),
           Bytes(<<Spec1(0, 0), Spec1(2, 2)>>), Bytes(<<Spec1(0, 1), Spec1(1, 2)>>),
           [kind |-> "garbage", specs |-> <<>>] }

Dates == {-1} \cup 0..MaxTime

\* The requests of the model: every URI and method under plain headers; the
\* encodings, the ranges and the conditional headers each in full on the files
\* that have them, next to a little of the others.
BareRequests ==
    { Request(m, u, a, NoRangeHeader, -1, -1) :
        m \in {"GET", "HEAD", "POST"}, u \in Uris, a \in {NoAccept, AcceptGzip} }
    \cup
    { Request(m, u, a, r, -1, -1) :
        m \in {"GET", "HEAD"}, u \in {UriHello, UriFoo, UriSubSlash, UriTape, UriMissing},
        a \in AcceptEncodings, r \in {NoRangeHeader, Bytes(<<Spec1(0, 0)>>)} }
    \cup
    { Request(m, u, a, r, i, -1) :
        m \in {"GET", "HEAD"}, u \in {UriHello, UriFoo},
        a \in {NoAccept, AcceptGzip}, r \in RangeHeaders, i \in {-1, 1} }
    \cup
    { Request(m, u, a, NoRangeHeader, i, j) :
        m \in {"GET", "HEAD"}, u \in {UriHello, UriFoo, UriSubSlash},
        a \in {NoAccept, AcceptGzip}, i \in Dates, j \in Dates }
    \cup
    { Request(m, Uri(<<"sub">>, FALSE), a, r, i, j) :
        m \in {"GET", "HEAD"}, a \in {NoAccept, AcceptGzip},
        r \in {NoRangeHeader, Bytes(<<Spec1(0, 0)>>), Bytes(<<Spec1(0, 0), Spec1(2, 2)>>)},
        i \in {-1, 0}, j \in {-1, 0} }

\* Each of them with a body and extensions, and some of those that miss the
\* file or are not GET or HEAD without.
Requests ==
    { WithBody(r, "payload", "ext") : r \in BareRequests }
    \cup
    { r \in BareRequests :
        /\ r.uri \in {UriMissing, Uri(<<"%ff">>, FALSE), UriHello}
        /\ r.accept_encoding = NoAccept /\ r.range = NoRangeHeader
        /\ r.if_modified_since = -1 /\ r.if_unmodified_since = -1 }

\* ------------------------------------------------- an embedded file in use

\* The seek or the read last made of the file: for a seek its position, the
\* index before it and its error; for a read the room of the buffer and the
\* number of bytes it delivered.
NoOp == [kind |-> "", position |-> SeekFrom("Start", 0), before |-> 0, err |-> "",
         room |-> 0, n |-> 0]

\* The file, where reading began (the index after the last seek), what the
\* reads since have returned, and whether the last of them reported the end.
Opened(file) ==
    [file |-> file, began |-> file.index, returned |-> <<>>, eof |-> FALSE,
     op |-> NoOp]
NoOpened == Opened(NoFile)

\* The embedded files as IncludeDirFilesystem::open hands them out.
EmbeddedFiles ==
    { EmbedOpen(PathNew(e.path)).file : e \in {f \in EmbedTree : ~f.dir} }

\* The positions a caller seeks to.
SeekPositions ==
    { SeekFrom("Start", n) : n \in 0..MaxUsize }
    \cup { SeekFrom(w, d) : w \in {"End", "Current"}, d \in -(MaxUsize + 1)..(MaxUsize + 1) }

\* start_seek, then poll_complete.
Sought(o, position) ==
    LET r == start_seek(o.file, position)
    IN  [o EXCEPT !.file = r.file,
                  !.began = IF r.err = "" THEN r.file.index ELSE @,
                  !.returned = IF r.err = "" THEN <<>> ELSE @,
                  !.eof = IF r.err = "" THEN FALSE ELSE @,
                  !.op = [NoOp EXCEPT !.kind = "seek", !.position = position,
                                      !.before = o.file.index, !.err = r.err]]

\* poll_read into a buffer with room for `room` bytes.
Read(o, room) ==
    LET r == IncludeDirFilePollRead(o.file, room)
    IN  [o EXCEPT !.file = r.file,
                  !.returned = @ \o r.bytes,
                  !.eof = r.bytes = <<>>,
                  !.op = [NoOp EXCEPT !.kind = "read", !.before = o.file.index,
                                      !.room = room, !.n = Len(r.bytes)]]

\* ------------------------------------------------- a request run on its own

\* The state Service::call leaves the future in.
Started(h, req) == [IdleTask EXCEPT !.pc = "gate", !.req = req, !.this = Clone(h)]

\* The fallback is called and answers: the instance called is the one taken
\* into fallback_and_request, or at the method gate the one in this's slot;
\* its error, turned into an io::Error, is the future's.
FallbackStage(t) ==
    LET ready == IF t.fallback_and_request THEN t.taken_ready
                 ELSE t.this.fallback_ready
        request == IF t.fallback_and_request THEN t.fallback_req ELSE t.req
        out == IF t.this.fallback_fails THEN Fail(t, "FallbackError")
               ELSE Finish(t, FallbackResponse(request.method))
    IN  [out EXCEPT !.fallback_calls = @ + 1,
                    !.fallback_called = Append(@, [ready |-> ready, req |-> request])]

\* The next stage of a future that has not resolved yet.
Poll(t) ==
    IF t.pc = "gate" THEN MethodGate(t)
    ELSE IF t.pc = "decode" THEN PrepareAndDecode(t)
    ELSE IF t.pc = "dircheck" THEN DirectoryStage(t)
    ELSE IF t.pc = "select" THEN SelectStage(t)
    ELSE IF t.pc = "meta" THEN MetadataStage(t)
    ELSE IF t.pc = "seek" THEN SeekStage(t)
    ELSE IF t.pc = "fallback" THEN FallbackStage(t)
    ELSE t

\* The future polled until it resolves: the state in which the response (or
\* the error) is handed to the caller, its body not yet read.
RECURSIVE Resolved(_)
Resolved(t) == IF t.pc \in {"body", "done"} THEN t ELSE Resolved(Poll(t))

\* What the handler h answers to req when nothing else is going on.
Answer(h, req) == Resolved(Started(h, req))

\* ------------------------------------------------- two requests in flight

\* The two requests, and the handles of the file objects they can have open.
Slots == {"task", "peer"}
Handles == 1..Cardinality(Slots)

\* The file objects in being (objs, NoFile where there is none) and the one
\* each request holds (of, 0 for none).
NoFiles == [objs |-> [h \in Handles |-> NoFile], of |-> [s \in Slots |-> 0]]

\* The handles some request holds.
Held(fl) == { fl.of[s] : s \in Slots } \ {0}

\* An open that hands out the object another request has open on the same
\* file, if there is one.
NewFileShared(fl, file) ==
    IF \E h \in Held(fl) : fl.objs[h].tree = file.tree /\ fl.objs[h].path = file.path
    THEN CHOOSE h \in Held(fl) :
             fl.objs[h].tree = file.tree /\ fl.objs[h].path = file.path
    ELSE CHOOSE h \in Handles \ Held(fl) : \A g \in Handles \ Held(fl) : h <= g

\* Filesystem::open: each call makes a file object of its own
\* (IncludeDirFile { index: 0, file }, DiskFile(File::open(..))).
NewFile(fl, file) ==
    CHOOSE h \in Handles \ Held(fl) : \A g \in Handles \ Held(fl) : h <= g

\* The request t of slot s as it finds its file object.
Load(t, s, fl) ==
    IF fl.of[s] = 0 THEN t ELSE [t EXCEPT !.file = fl.objs[fl.of[s]]]

\* The file objects after the request of slot s went from t0 to t1: an open
\* makes an object, a seek or a read moves the one held, and the object goes
\* when the request lets go of it.
Store(t0, t1, s, fl) ==
    IF ~t0.holding /\ t1.holding
    THEN LET h == NewFile(fl, t1.file)
         IN  [objs |-> IF h \in Held(fl) THEN fl.objs
                       ELSE [fl.objs EXCEPT ![h] = t1.file],
              of |-> [fl.of EXCEPT ![s] = h]]
    ELSE IF t0.holding /\ ~t1.holding
    THEN LET of == [fl.of EXCEPT ![s] = 0]
         IN  [objs |-> IF \E r \in Slots : of[r] = fl.of[s] THEN fl.objs
                       ELSE [fl.objs EXCEPT ![fl.of[s]] = NoFile],
              of |-> of]
    ELSE IF t1.holding
    THEN [fl EXCEPT !.objs[fl.of[s]] = t1.file]
    ELSE fl

\* The request of a slot.
Slot(s) == IF s = "task" THEN task ELSE peer

\* The handlers and the requests two requests are run on at once.
PairHandlers ==
    { poll_ready(ServeDir(c, v, DirectoryVariant(TRUE), f, FALSE, PlainFs(b))) :
        c \in 1..MaxChunk, v \in {Variants(TRUE, FALSE, FALSE)},
        f \in BOOLEAN, b \in Backends }

PairRequests ==
    { Request("GET", UriHello, NoAccept, r, -1, -1) :
        r \in {NoRangeHeader, Bytes(<<Spec1(0, 0)>>), Bytes(<<Spec1(1, 2)>>)} }
    \cup
    { Request("HEAD", UriHello, NoAccept, NoRangeHeader, -1, -1),
      Request("GET", UriFoo, AcceptGzip, NoRangeHeader, -1, -1),
      Request("GET", UriSubSlash, NoAccept, NoRangeHeader, -1, -1),
      Request("GET", UriMissing, AcceptGzip, NoRangeHeader, -1, -1),
      Request("POST", UriHello, NoAccept, NoRangeHeader, -1, -1),
      Request("GET", UriHello, NoAccept, NoRangeHeader, MaxTime, -1),
      Request("GET", UriHello, NoAccept, NoRangeHeader, -1, 0),
      Request("GET", UriHello, NoAccept, Bytes(<<Spec1(0, 0), Spec1(2, 2)>>), -1, -1),
      Request("GET", Uri(<<"flaky.txt">>, FALSE), NoAccept, NoRangeHeader, -1, -1),
      Request("GET", UriTape, NoAccept, Bytes(<<Spec1(0, 0)>>), -1, -1) }

\* ---------------------------------------------------------------- actions

Init ==
    /\ handler \in Handlers
    /\ task = IdleTask
    /\ opened = NoOpened
    /\ peer = IdleTask
    /\ files = NoFiles

\* Service::poll_ready, which the caller awaits before each call.
PollReady ==
    /\ task.pc = "idle"
    /\ handler' = poll_ready(handler)
    /\ task' = [task EXCEPT !.pc = "ready"]
    /\ UNCHANGED <<opened, peer, files>>

\* Service::call: the future starts on a clone of the handler.
Call ==
    /\ task.pc = "ready"
    /\ \E req \in Requests :
          task' = Started(handler, req)
    /\ UNCHANGED <<handler, opened, peer, files>>

Gate ==
    /\ task.pc = "gate"
    /\ task' = MethodGate(task)
    /\ UNCHANGED <<handler, opened, peer, files>>

Decode ==
    /\ task.pc = "decode"
    /\ task' = PrepareAndDecode(task)
    /\ UNCHANGED <<handler, opened, peer, files>>

DirCheck ==
    /\ task.pc = "dircheck"
    /\ task' = DirectoryStage(task)
    /\ UNCHANGED <<handler, opened, peer, files>>

Select ==
    /\ task.pc = "select"
    /\ task' = SelectStage(task)
    /\ UNCHANGED <<handler, opened, peer, files>>

FileMeta ==
    /\ task.pc = "meta"
    /\ task' = MetadataStage(task)
    /\ UNCHANGED <<handler, opened, peer, files>>

Seek ==
    /\ task.pc = "seek"
    /\ task' = SeekStage(task)
    /\ UNCHANGED <<handler, opened, peer, files>>

\* The client polls the body for its next chunk.
ReadChunk ==
    /\ task.pc = "body"
    /\ Len(task.sent) < MaxBody
    /\ \E n \in ReadSizes(task) : task' = PollData(task, n)
    /\ UNCHANGED <<handler, opened, peer, files>>

\* call_fallback, and the call of the fallback at the method gate.
CallFallback ==
    /\ task.pc = "fallback"
    /\ task' = FallbackStage(task)
    /\ UNCHANGED <<handler, opened, peer, files>>

\* The response and its body are dropped; the handler takes the next request.
Drop ==
    /\ task.pc \in {"done", "body"}
    /\ task' = IdleTask
    /\ UNCHANGED <<handler, opened, peer, files>>

\* The future is dropped at one of its awaits: the request is cancelled.
Cancel ==
    /\ task.pc \in {"gate", "decode", "dircheck", "select", "meta", "seek", "fallback"}
    /\ task' = IdleTask
    /\ UNCHANGED <<handler, opened, peer, files>>

Next ==
    \/ PollReady \/ Call \/ Gate \/ Decode \/ DirCheck \/ Select \/ FileMeta \/ Seek
    \/ ReadChunk \/ CallFallback \/ Drop \/ Cancel

Spec == Init /\ [][Next]_vars

\* An embedded file used directly: opened, then sought and read at will.
FileInit ==
    /\ handler = NoHandler
    /\ task = IdleTask
    /\ peer = IdleTask
    /\ files = NoFiles
    /\ opened \in { Opened(f) : f \in EmbeddedFiles }

StartSeek ==
    /\ \E position \in SeekPositions : opened' = Sought(opened, position)
    /\ UNCHANGED <<handler, task, peer, files>>

PollRead ==
    /\ Len(opened.returned) < MaxBody
    /\ ~opened.eof
    /\ \E room \in 1..MaxChunk : opened' = Read(opened, room)
    /\ UNCHANGED <<handler, task, peer, files>>

FileNext == StartSeek \/ PollRead

FileSpec == FileInit /\ [][FileNext]_vars

\* Two requests in flight on one handler, their suspension points interleaved
\* at will.
PairInit ==
    /\ handler \in PairHandlers
    /\ task = IdleTask
    /\ peer = IdleTask
    /\ opened = NoOpened
    /\ files = NoFiles

\* The request of slot s becomes t1, having been t0 as it found its file.
Becomes(s, t0, t1) ==
    /\ task' = IF s = "task" THEN t1 ELSE task
    /\ peer' = IF s = "peer" THEN t1 ELSE peer
    /\ files' = Store(t0, t1, s, files)
    /\ UNCHANGED <<handler, opened>>

PairCallOf(s) ==
    /\ Slot(s).pc = "idle"
    /\ \E req \in PairRequests :
          Becomes(s, Slot(s), Started(handler, req))

\* The future of the request is polled and runs to its next await.
PairPollOf(s) ==
    /\ Slot(s).pc \in {"gate", "decode", "dircheck", "select", "meta", "seek",
                        "fallback"}
    /\ Becomes(s, Load(Slot(s), s, files), Poll(Load(Slot(s), s, files)))

\* The body of the response is polled for its next chunk.
PairReadOf(s) ==
    /\ Slot(s).pc = "body"
    /\ Len(Slot(s).sent) < MaxBody
    /\ \E n \in ReadSizes(Load(Slot(s), s, files)) :
          Becomes(s, Load(Slot(s), s, files), PollData(Load(Slot(s), s, files), n))

\* The future is dropped at one of its awaits (the request is cancelled), or
\* the response is dropped, with its body.
PairDropOf(s) ==
    /\ Slot(s).pc # "idle"
    /\ Becomes(s, Load(Slot(s), s, files), IdleTask)

PairCall == \E s \in Slots : PairCallOf(s)
PairPoll == \E s \in Slots : PairPollOf(s)
PairRead == \E s \in Slots : PairReadOf(s)
PairDrop == \E s \in Slots : PairDropOf(s)

PairNext == PairCall \/ PairPoll \/ PairRead \/ PairDrop

PairSpec == PairInit /\ [][PairNext]_vars

\* One request at a time, where whoever holds the future or the response goes
\* on with it: the future is polled or dropped, the body read or dropped.
LiveInit ==
    /\ handler \in PairHandlers
    /\ task = IdleTask
    /\ opened = NoOpened
    /\ peer = IdleTask
    /\ files = NoFiles

LiveCall ==
    /\ task.pc = "idle"
    /\ \E req \in PairRequests : task' = Started(handler, req)
    /\ UNCHANGED <<handler, opened, peer, files>>

LiveNext ==
    \/ LiveCall \/ Drop \/ Cancel
    \/ Gate \/ Decode \/ DirCheck \/ Select \/ FileMeta \/ Seek
    \/ ReadChunk \/ CallFallback

LiveSpec == LiveInit /\ [][LiveNext]_vars /\ WF_vars(LiveNext)

\* ------------------------------------------------------------ observation

\* The future has resolved: the caller holds the response (or the error).
Responded == task.pc \in {"body", "done"}

\* A request is in flight or answered.
InFlight == task.pc \notin {"idle", "ready"}

\* The caller holds what the fallback returned to the one call made of it:
\* its response, or its error.
FallbackAnswered ==
    /\ task.fallback_calls = 1
    /\ IF task.this.fallback_fails
       THEN task.error = "FallbackError" /\ task.resp = NoResponse
       ELSE task.error = "" /\ task.resp = FallbackResponse(task.req.method)

\* s is a leading part of t.
IsPrefix(s, t) == Len(s) <= Len(t) /\ SubSeq(t, 1, Len(s)) = s

\* The percent-decoded request path has a ".." component.
HasParentComponent(req) ==
    LET d == DecodePathSegs(req.uri.segs)
    IN  d.ok /\ \E i \in 1..Len(d.pieces) : d.pieces[i] = DotDot

\* The five headers of a file response.
FileHeaders(resp) ==
    <<resp.content_type, resp.accept_ranges, resp.content_length,
      resp.content_encoding, resp.last_modified>>

\* The same request sent as GET.
GetTwin(req) == [req EXCEPT !.method = "GET"]

\* ------------------------------------------------------- path traversal

\* A GET or HEAD with ".." in its decoded path is in flight at a Directory
\* handler over the disk backend.
C1_Case ==
    /\ InFlight
    /\ task.req.method \in {"GET", "HEAD"}
    /\ task.this.variant.kind = "Directory"
    /\ task.this.filesystem = PlainFs("disk")
    /\ HasParentComponent(task.req)

\* C1 (as amended): for a GET or HEAD to a Directory handler over the disk
\* backend whose decoded path has a ".." component, the backend makes no call
\* to the host filesystem at all, and the answer is 404 when no fallback is
\* configured and what the fallback returns (its response or its error) when
\* one is.
C1_TraversalRejected ==
    C1_Case =>
        /\ task.host_calls = <<>>
        /\ Responded =>
              IF task.this.fallback THEN FallbackAnswered
              ELSE task.error = "" /\ task.resp = not_found

\* C1 witness: such a request was answered 404 after is_dir and open were
\* both asked about the path.
C1_Witness ==
    /\ C1_Case /\ task.pc = "done" /\ task.resp.status = 404
    /\ \E i, j \in 1..Len(task.fs_calls) :
          task.fs_calls[i].op = "is_dir" /\ task.fs_calls[j].op = "open"
    /\ task.host_calls = <<>>

\* C1 as stated: the response is 404, whatever the handler's configuration,
\* and the host filesystem is not asked about a path outside the base.
C1_AlwaysNotFound ==
    C1_Case =>
        /\ \A i \in 1..Len(task.host_calls) :
              UnderBase(HostResolve(task.host_calls[i].path, <<>>))
        /\ Responded => task.resp.status = 404

\* ------------------------------------------------------- whole-file GET

\* C2 as stated: a GET without Range that is answered from a file of length L
\* (no conditional header firing) gets 200 with Content-Length L, and its body
\* delivers exactly the file's bytes, in order and once, in chunks of at most
\* buf_chunk_size bytes, on every backend.
C2_WholeFileBody ==
    ( /\ Responded /\ task.req.method = "GET" /\ task.req.range = NoRangeHeader
      /\ task.extent = "Full" /\ task.resp.status \notin {304, 412} )
    => LET data == FileBytes(task.file)
       IN  /\ task.resp.status = 200
           /\ task.resp.content_length = Len(data)
           /\ IsPrefix(task.sent, data)
           /\ task.max_chunk <= task.this.buf_chunk_size
           /\ task.pc = "done" => task.sent = data

\* --------------------------------------------------------- single range

\* C3 as stated: a GET with Range: bytes=S-E, 0 <= S <= E < L, and no
\* conditional header gets 206 with Content-Range bytes S-E/L and
\* Content-Length E-S+1, and its body delivers exactly the bytes S..E of the
\* file, on every backend and at every chunk size.
C3_RangeBody ==
    LET r == task.req.range
        data == FileBytes(task.file)
    IN  ( /\ Responded /\ task.req.method = "GET" /\ task.extent = "Full"
          /\ task.req.if_modified_since = -1 /\ task.req.if_unmodified_since = -1
          /\ r.kind = "bytes" /\ Len(r.specs) = 1
          /\ r.specs[1].from >= 0 /\ r.specs[1].from <= r.specs[1].to
          /\ r.specs[1].to < Len(data) )
        => LET S == r.specs[1].from
               E == r.specs[1].to
               part == SubSeq(data, S + 1, E + 1)
           IN  /\ task.resp.status = 206
               /\ task.resp.content_range =
                      [kind |-> "range", start |-> S, end |-> E, size |-> Len(data)]
               /\ task.resp.content_length = E - S + 1
               /\ IsPrefix(task.sent, part)
               /\ task.pc = "done" => task.sent = part

\* ------------------------------------------------------------ HEAD and GET

\* A HEAD has been answered; g is what the same handler answers to its GET
\* twin: the HEAD response has g's status and headers, and no body.
HeadAgrees(g) ==
    /\ task.error = ""
    /\ task.resp.status = g.resp.status
    /\ FileHeaders(task.resp) = FileHeaders(g.resp)
    /\ task.resp.body = "empty"
    /\ task.sent = <<>>

\* C4 as stated: for a HEAD whose GET twin (same URI, headers, files and
\* handler) is answered 200, the HEAD response has the same status, the same
\* Content-Type, Accept-Ranges, Content-Length, Content-Encoding and
\* Last-Modified, and an empty body.
C4_HeadMatchesGet ==
    (Responded /\ task.req.method = "HEAD") =>
        LET g == Answer(handler, GetTwin(task.req))
        IN  (g.error = "" /\ g.resp.status = 200) => HeadAgrees(g)

\* Where the GET twin's 200 is the handler's own, from the file it opened,
\* the HEAD response does agree with it.
HeadMatchesFileGet ==
    (Responded /\ task.req.method = "HEAD") =>
        LET g == Answer(handler, GetTwin(task.req))
        IN  (g.error = "" /\ g.resp.status = 200 /\ g.resp.source = "handler")
                => HeadAgrees(g)

\* ---------------------------------------------------- conditional requests

\* A request was answered after a file was selected whose modification time
\* is known.
AnsweredFromFile == Responded /\ task.extent # "" /\ task.meta.modified.known

NothingOfTheFile == task.resp.body = "empty" /\ task.sent = <<>>

\* If-Modified-Since: T with the file's whole-second modification time <= T.
C5_Case ==
    /\ AnsweredFromFile
    /\ task.req.if_modified_since # -1
    /\ task.meta.modified.secs <= task.req.if_modified_since

\* C5 (as amended): a request with If-Modified-Since: T, where the served
\* file's modification time at whole-second resolution is <= T, and with no
\* If-Unmodified-Since header whose date is earlier than that modification
\* time, is answered 304 with an empty body.
C5_NotModified ==
    ( /\ C5_Case
      /\ \/ task.req.if_unmodified_since = -1
         \/ task.req.if_unmodified_since >= task.meta.modified.secs )
    => task.resp.status = 304 /\ NothingOfTheFile

\* C5 witness: a file modified half a second after T's whole second was
\* answered 304 to If-Modified-Since: T, an If-Unmodified-Since passing too.
C5_Witness ==
    /\ C5_Case /\ task.resp.status = 304
    /\ task.meta.modified.frac
    /\ task.meta.modified.secs = task.req.if_modified_since
    /\ task.req.if_unmodified_since # -1

\* C5 as stated: whatever other headers the request carries.
C5_NotModifiedAlways == C5_Case => task.resp.status = 304 /\ NothingOfTheFile

\* If-Unmodified-Since: T with the file's whole-second modification time > T.
C6_Case ==
    /\ AnsweredFromFile
    /\ task.req.if_unmodified_since # -1
    /\ task.meta.modified.secs > task.req.if_unmodified_since

\* C6 (as amended): a request with If-Unmodified-Since: T, where the served
\* file's modification time at whole-second resolution is later than T, is
\* answered 412 with an empty body, and none of the file's bytes are sent.
C6_PreconditionFailed == C6_Case => task.resp.status = 412 /\ NothingOfTheFile

\* C6 witness: a GET had opened the file when it was answered 412.
C6_Witness ==
    /\ C6_Case /\ task.resp.status = 412 /\ task.req.method = "GET"
    /\ task.extent = "Full" /\ task.file # NoFile

\* C6 as stated: the file's modification time itself, fraction of a second
\* included, is later than T.
C6_PreconditionFailedExact ==
    ( /\ AnsweredFromFile
      /\ task.req.if_unmodified_since # -1
      /\ \/ task.meta.modified.secs > task.req.if_unmodified_since
         \/ /\ task.meta.modified.secs = task.req.if_unmodified_since
            /\ task.meta.modified.frac )
    => task.resp.status = 412 /\ NothingOfTheFile

\* ------------------------------------------------- precompressed variants

\* The extension of a variant's sibling file.
VariantSuffix(e) == IF e = "gzip" THEN "gz" ELSE IF e = "deflate" THEN "zz" ELSE "br"

\* The sibling of the file at names: its name with the variant's extension
\* added ("hello.txt" has "hello.txt.gz", "foo" has "foo.gz").
SiblingOf(names, e) == Front(names) \o <<Last(names) \o <<VariantSuffix(e)>>>>

\* The backend of fs has a readable file at names, relative to its root.
HasFile(fs, names) ==
    IF fs.backend = "disk"
    THEN LET e == Lookup(HostTree, <<Assets>> \o names)
         IN  Exists(HostTree, <<Assets>> \o names) /\ ~e.dir /\ e.readable
    ELSE Exists(EmbedTree, names) /\ ~Lookup(EmbedTree, names).dir

\* The bytes of that file.
BytesAt(fs, names) ==
    IF fs.backend = "disk" THEN Lookup(HostTree, <<Assets>> \o names).bytes
    ELSE Lookup(EmbedTree, names).bytes

\* The names of the decoded request path.
RequestNames(req) == DecodePathSegs(req.uri.segs).pieces

\* The response serves the file at names under Content-Encoding e ("" for none).
Serves(names, e) ==
    /\ task.error = ""
    /\ task.resp.status = 200
    /\ task.resp.content_encoding = e
    /\ CompNames(task.selected) = names
    /\ task.resp.content_length = Len(BytesAt(task.this.filesystem, names))
    /\ task.req.method = "GET" =>
          /\ task.resp.body = "file"
          /\ FileBytes(task.file) = BytesAt(task.this.filesystem, names)

\* A GET or HEAD with no Range and no conditional header, whose
\* Accept-Encoding does not name identity, was answered by a Directory
\* handler, and its path names a file of the backend.
C7_Case ==
    /\ Responded
    /\ task.req.method \in {"GET", "HEAD"}
    /\ task.this.variant.kind = "Directory"
    /\ task.req.range = NoRangeHeader
    /\ task.req.if_modified_since = -1 /\ task.req.if_unmodified_since = -1
    /\ \A i \in 1..Len(task.req.accept_encoding) :
          task.req.accept_encoding[i].enc # "identity"
    /\ DecodePathSegs(task.req.uri.segs).ok
    /\ ~task.req.uri.slash
    /\ RequestNames(task.req) # <<>>
    /\ \A i \in 1..Len(RequestNames(task.req)) :
          RequestNames(task.req)[i] \notin {Dot, DotDot, RootMark}
    /\ HasFile(task.this.filesystem, RequestNames(task.req))

\* C7 as stated: the variant that is enabled, accepted with q > 0 and
\* preferred among the accepted ones is served from its sibling file, with
\* its Content-Encoding, when that sibling is present; the uncompressed file
\* is served without Content-Encoding when no enabled and accepted variant
\* has its sibling present; for every file name, with or without extension.
C7_VariantServed ==
    C7_Case =>
        LET names == RequestNames(task.req)
            fs == task.this.filesystem
            accepted == encodings(task.req.accept_encoding,
                                  task.this.precompressed_variants)
            preferred == EncodingPreferred(accepted)
            present == { i \in 1..Len(accepted) :
                            /\ accepted[i].q > 0
                            /\ HasFile(fs, SiblingOf(names, accepted[i].enc)) }
        IN  /\ (preferred # "" /\ HasFile(fs, SiblingOf(names, preferred)))
                  => Serves(SiblingOf(names, preferred), preferred)
            /\ present = {} => Serves(names, "")

\* ------------------------------------------------------ Range rejections

\* The length of the file the request was answered from.
ServedLength ==
    IF task.extent = "Full" THEN Len(FileBytes(task.file)) ELSE task.meta.len

C9_MethodNotAllowed ==
    (InFlight /\ task.req.method \notin {"GET", "HEAD"}) =>
        IF task.this.call_fallback_on_method_not_allowed /\ task.this.fallback
        THEN Responded => FallbackAnswered
        ELSE /\ task.fs_calls = <<>>
             /\ Responded =>
                   /\ task.resp.status = 405
                   /\ task.resp.allow = "GET,HEAD"
                   /\ task.resp.body = "empty"

\* ----------------------------------------------------- single-file handler

\* The request for the path a ServeFile handler is configured with.
AtConfiguredPath(req) == [req EXCEPT !.uri = UriHello]

\* C10 as stated: a ServeFile handler answers a GET for any path as it
\* answers the GET for its configured path: same status, headers and file.
C10_PathIgnored ==
    ( /\ Responded /\ task.this.filesystem.single
      /\ task.this.filesystem.file_path = PathNew(<<HelloTxt>>)
      /\ task.req.method = "GET" )
    => LET ref == Answer(handler, AtConfiguredPath(task.req))
       IN  /\ task.error = ref.error
           /\ task.resp = ref.resp
           /\ task.selected = ref.selected


\* C11 as stated: a GET for the path a ServeFile handler was built with, when
\* the file is there (and no Range or conditional header is sent), is answered
\* 200 with the Content-Type guessed from the path's extension
\* (application/octet-stream without one) and a body that is the file's
\* contents in full.
C11_ServeFileServes ==
    ( /\ Responded /\ task.this.variant.kind = "SingleFile"
      /\ task.req.method = "GET"
      /\ DecodePathSegs(task.req.uri.segs).ok
      /\ PathNew(RequestNames(task.req)) = task.this.filesystem.file_path
      /\ HasFile(task.this.filesystem, RequestNames(task.req))
      /\ task.req.range = NoRangeHeader
      /\ task.req.if_modified_since = -1 /\ task.req.if_unmodified_since = -1 )
    => LET data == BytesAt(task.this.filesystem, RequestNames(task.req))
       IN  /\ task.error = "" /\ task.resp.status = 200
           /\ task.resp.content_type = MimeGuess(task.this.filesystem.file_path)
           /\ task.resp.content_type =
                 IF RequestNames(task.req) = <<Foo>> THEN "application/octet-stream"
                 ELSE "text/plain"
           /\ IsPrefix(task.sent, data)
           /\ task.pc = "done" => task.sent = data

\* ------------------------------------------------------------- misses

\* The request path did not decode, or the pipeline came to FileNotFound, or
\* it failed with NotFound or PermissionDenied; the caller has the answer.
C12_Case ==
    /\ Responded
    /\ task.outcome \in {"Undecodable", "FileNotFound", "NotFound", "PermissionDenied"}

\* The one call made of the fallback passed the request prepared for it: the
\* method, URI and headers of the request.
CalledWithPrepared ==
    /\ Len(task.fallback_called) = 1
    /\ task.fallback_called[1].req = task.req

\* C12 (as amended): at an undecodable path, at FileNotFound and at the I/O
\* errors NotFound and PermissionDenied, a handler with a fallback calls it
\* with the prepared request and returns what it returns, its response or
\* its error; a handler without one answers 404 with an empty body and
\* returns no error.
C12_MissToFallback ==
    C12_Case =>
        IF task.this.fallback THEN FallbackAnswered /\ CalledWithPrepared
        ELSE /\ task.error = "" /\ task.resp = not_found
             /\ task.resp.body = "empty" /\ task.fallback_calls = 0

\* C12 witness: a file the host refuses to open was answered by the fallback.
C12_Witness ==
    /\ C12_Case /\ task.outcome = "PermissionDenied"
    /\ task.this.fallback /\ ~task.this.fallback_fails
    /\ task.resp = FallbackResponse(task.req.method)
    /\ CalledWithPrepared

\* C12 as stated: in these cases the fallback's response is returned when one
\* is configured, 404 with an empty body otherwise, and never an error.
C12_NeverAnError ==
    C12_Case =>
        /\ task.error = ""
        /\ IF task.this.fallback
           THEN task.resp = FallbackResponse(task.req.method) /\ CalledWithPrepared
           ELSE task.resp = not_found

\* ------------------------------------------------- fallback readiness

\* C13 as stated: whenever a fallback is called, the instance called is the
\* one poll_ready reported ready (never a clone that was not polled), and the
\* handler goes on holding a fallback in its slot.
C13_CalledWhenReady ==
    /\ \A i \in 1..Len(task.fallback_called) : task.fallback_called[i].ready
    /\ (InFlight /\ task.fallback_calls > 0) => handler.fallback

\* -------------------------------------------------- directory redirect

\* The filesystem of the handler in flight says the decoded request path is a
\* directory.
RequestIsDir ==
    /\ DecodePathSegs(task.req.uri.segs).ok
    /\ LET is_dir == FsIsDir(task.this.filesystem, PathNew(RequestNames(task.req)))
       IN  is_dir.err = "" /\ is_dir.isdir

\* A GET or HEAD for a directory was answered by a Directory handler.
C14_Case ==
    /\ Responded /\ task.this.variant.kind = "Directory"
    /\ task.req.method \in {"GET", "HEAD"}
    /\ RequestIsDir

\* The redirect half of C14: when the path does not end in "/", the answer is
\* 307 with an empty body and a Location that is the request URI with "/"
\* added to its path, its scheme, authority and query kept.
RedirectsToSlash ==
    (C14_Case /\ ~EndsWithSlash(task.req.uri)) =>
        /\ task.error = "" /\ task.resp.status = 307 /\ task.resp.body = "empty"
        /\ task.resp.location.set
        /\ LET to == task.resp.location.uri
           IN  /\ to.segs = task.req.uri.segs /\ to.slash
               /\ to.scheme = task.req.uri.scheme
               /\ to.authority = task.req.uri.authority
               /\ to.query = task.req.uri.query

\* The request is one a client following such a redirect sends: a plain GET
\* for the Location of the redirect its URI without the "/" is answered with.
FollowsRedirect ==
    LET before == [task.req EXCEPT !.uri.slash = FALSE]
        first == Answer(handler, before)
    IN  /\ task.req.method = "GET" /\ task.req.uri.segs # <<>> /\ task.req.uri.slash
        /\ task.req.range = NoRangeHeader
        /\ task.req.if_modified_since = -1 /\ task.req.if_unmodified_since = -1
        /\ first.resp.status = 307 /\ first.resp.location.uri = task.req.uri

\* C14 as stated: a directory asked for without the trailing "/" is answered
\* by that redirect, and the request that follows it, with
\* append_index_html_on_directories on and index.html in the directory, is
\* answered 200 with the contents of index.html.
C14_RedirectThenIndex ==
    /\ RedirectsToSlash
    /\ ( /\ C14_Case /\ FollowsRedirect
         /\ task.this.variant.append_index_html_on_directories
         /\ HasFile(task.this.filesystem, RequestNames(task.req) \o <<IndexHtml>>) )
       => LET data == BytesAt(task.this.filesystem,
                              RequestNames(task.req) \o <<IndexHtml>>)
          IN  /\ task.error = "" /\ task.resp.status = 200
              /\ IsPrefix(task.sent, data)
              /\ task.pc = "done" => task.sent = data

\* ---------------------------------------------------------- backslashes

\* A segment of the decoded request path has a backslash in it.
HasBackslash(req) ==
    LET d == DecodePathSegs(req.uri.segs)
    IN  d.ok /\ \E i \in 1..Len(d.pieces) :
                   d.pieces[i] \in {ABackslashBTxt, CBackslashDTxt}

\* C15 as stated: a GET or HEAD whose decoded path has a backslash in a
\* segment is answered by a Directory handler (here one without a fallback)
\* with an empty 404, whether a file of that name is under the base or not.
C15_BackslashNotFound ==
    ( /\ Responded /\ task.this.variant.kind = "Directory"
      /\ ~task.this.fallback
      /\ task.req.method \in {"GET", "HEAD"}
      /\ HasBackslash(task.req) )
    => task.error = "" /\ task.resp = not_found

\* ------------------------------------------------- seeks of an embedded file

\* The position a seek aims at: the offset from the start, from the length
\* or from the index before it.
SeekTarget(o) ==
    IF o.op.position.whence = "Start" THEN o.op.position.offset
    ELSE IF o.op.position.whence = "End"
    THEN Len(FileBytes(o.file)) + o.op.position.offset
    ELSE o.op.before + o.op.position.offset

\* C16 (as amended): a seek of an embedded file fails, with InvalidInput and
\* the index left where it was, exactly when its target is negative or above
\* the largest usize; every other seek succeeds and leaves the index at its
\* target, be that beyond the length of the file or not.
C16_SeekChecked ==
    opened.op.kind = "seek" =>
        LET target == SeekTarget(opened)
        IN  IF target < 0 \/ target > MaxUsize
            THEN opened.op.err = "InvalidInput" /\ opened.file.index = opened.op.before
            ELSE opened.op.err = "" /\ opened.file.index = target

\* C16 witness: a seek back from the end to before the start of the file has
\* failed, and the index is left beyond the end of the file, where an earlier
\* seek had put it.
C16_Witness ==
    /\ opened.op.kind = "seek" /\ opened.op.position.whence = "End"
    /\ SeekTarget(opened) < 0 /\ opened.op.err = "InvalidInput"
    /\ opened.op.before > Len(FileBytes(opened.file))
    /\ opened.file.index = opened.op.before

\* C16 as stated: a seek of an embedded file of length L whose target is
\* negative or above L fails with InvalidInput and leaves the index where it
\* was, and a seek that succeeds leaves the index in 0..L.
C16_SeekWithinFile ==
    opened.op.kind = "seek" =>
        LET target == SeekTarget(opened)
            L == Len(FileBytes(opened.file))
        IN  /\ (target < 0 \/ target > L) =>
                  opened.op.err = "InvalidInput" /\ opened.file.index = opened.op.before
            /\ opened.op.err = "" => opened.file.index \in 0..L

\* ------------------------------------------------- reads of an embedded file

\* C17 as stated: the reads of an embedded file since its index was c return
\* the bytes from c on, one after the other and each once, so that a read
\* reports the end when contents[c..L] has been returned, and not before.
C17_ReadsAdvance ==
    LET data == FileBytes(opened.file)
        rest == IF opened.began >= Len(data) THEN <<>>
                ELSE SubSeq(data, opened.began + 1, Len(data))
    IN  (opened.file.tree = "embed" /\ opened.began <= Len(data)) =>
            /\ IsPrefix(opened.returned, rest)
            /\ opened.file.index = opened.began + Len(opened.returned)
            /\ opened.eof => opened.returned = rest

\* ------------------------------------------------------ the selection loop

\* The calls the selection loop has made of the filesystem, in order.
LoopCalls(t) == SelectSeq(t.fs_calls, LAMBDA c : c.op \in {"open", "metadata"})

\* The encodings of a negotiated list, each counted once.
DistinctEncodings(negotiated) == { negotiated[i].enc : i \in 1..Len(negotiated) }

\* The list the loop of request t starts from.
Negotiated(t) == encodings(t.req.accept_encoding, t.this.precompressed_variants)

\* C18: each turn of the selection loop (open for GET, metadata for HEAD)
\* ends the loop with a file, metadata or an error, or goes on with strictly
\* fewer encodings in the negotiated list; so the loop ends, and a request
\* whose negotiated list has n distinct encodings makes at most n + 1 of
\* these filesystem calls.  (A future dropped inside the loop goes back to
\* idle and makes no further call.)
C18_LoopEnds ==
    [][ /\ Len(LoopCalls(task')) <= Cardinality(DistinctEncodings(Negotiated(task'))) + 1
        /\ (task.pc = "select" /\ task'.pc = "select") =>
              /\ Len(LoopCalls(task')) = Len(LoopCalls(task)) + 1
              /\ DistinctEncodings(task'.negotiated) # DistinctEncodings(task.negotiated)
              /\ DistinctEncodings(task'.negotiated) \subseteq DistinctEncodings(task.negotiated)
        /\ (task.pc = "select" /\ task'.pc \notin {"select", "idle"}) =>
              \/ task'.extent \in {"Full", "Head"}
              \/ task'.outcome \in {"NotFound", "PermissionDenied", "Other"} ]_vars

\* C18 witness: a request with two encodings negotiated was answered after
\* three calls of the loop, neither variant being there.
C18_Witness ==
    /\ Responded
    /\ Cardinality(DistinctEncodings(Negotiated(task))) = 2
    /\ Len(LoopCalls(task)) = 3
    /\ task.negotiated = <<>>

\* The path with the file extension of encoding e after its file name.
WithSuffix(path, e) ==
    Front(path) \o <<[Last(path) EXCEPT !.name = @ \o <<VariantSuffix(e)>>]>>

\* The paths the loop may try from the base path: the base path itself, and
\* the base path with one encoding's extension.
BaseOrSibling(base) ==
    IF HasFileName(base)
    THEN {base} \cup { WithSuffix(base, e) : e \in {"gzip", "deflate", "br"} }
    ELSE {base}

\* C19 as stated: every path the selection loop passes to the filesystem is
\* the base path it was entered with or that path with one encoding's
\* extension; between two turns the path is the base path again; and a turn
\* made with no encoding left passes the base path.
C19_BaseOrOneSuffix ==
    LET calls == LoopCalls(task)
    IN  /\ \A i \in 1..Len(calls) : calls[i].path \in BaseOrSibling(task.path_to_file)
        /\ task.pc = "select" => task.path = task.path_to_file
        /\ (calls # <<>> /\ task.pc # "select" /\ task.negotiated = <<>>) =>
              calls[Len(calls)].path = task.path_to_file

\* ------------------------------------------- order of the conditional headers

\* A request was answered after the file or its metadata was obtained, with
\* no I/O error from the opened file.
C20_Case ==
    /\ Responded /\ task.extent # ""
    /\ \A i \in 1..Len(task.file_calls) : task.file_calls[i].err = ""

\* The modification time m is later than the date d of a header.
Later(m, d) == m.secs > d \/ (m.secs = d /\ m.frac)

\* C20 (as amended): once the file or its metadata is obtained,
\* If-Unmodified-Since is evaluated first and gives 412 when the modification
\* time is unknown or, in whole seconds, later than its date; only when it is
\* absent or passes is If-Modified-Since evaluated, and it gives 304 exactly
\* when the modification time is known and, in whole seconds, not later than
\* its date.
C20_ConditionalOrder ==
    C20_Case =>
        LET m == task.meta.modified
            ius == task.req.if_unmodified_since
            ims == task.req.if_modified_since
            failed == ius # -1 /\ (~m.known \/ m.secs > ius)
            unmodified == ims # -1 /\ m.known /\ m.secs <= ims
        IN  /\ task.resp.status = 412 <=> failed
            /\ task.resp.status = 304 <=> (~failed /\ unmodified)
            /\ task.error = ""

\* C20 witness: with both headers sent, the first failing and the second
\* one that alone would give 304, the answer was 412.
C20_Witness ==
    /\ C20_Case /\ task.resp.status = 412
    /\ task.meta.modified.known
    /\ task.req.if_unmodified_since # -1
    /\ task.meta.modified.secs > task.req.if_unmodified_since
    /\ task.req.if_modified_since # -1
    /\ task.meta.modified.secs <= task.req.if_modified_since

\* C20 as stated: the same, with the file's modification time itself held
\* against the dates.
C20_ConditionalOrderExact ==
    C20_Case =>
        LET m == task.meta.modified
            ius == task.req.if_unmodified_since
            ims == task.req.if_modified_since
            failed == ius # -1 /\ (~m.known \/ Later(m, ius))
            unmodified == ims # -1 /\ m.known /\ ~Later(m, ims)
        IN  /\ task.resp.status = 412 <=> failed
            /\ task.resp.status = 304 <=> (~failed /\ unmodified)

\* ------------------------------------------------------- directory index

\* A request for a directory, its URI path ending in "/", has passed the
\* directory check of a Directory handler.
C21_Case ==
    /\ InFlight /\ task.this.variant.kind = "Directory"
    /\ EndsWithSlash(task.req.uri) /\ RequestIsDir
    /\ task.pc \notin {"gate", "decode", "dircheck"}
    /\ task.fs_calls # <<>>

Surfaced(kind) ==
    /\ task.pc = "done" /\ task.error = kind /\ task.resp = NoResponse
    /\ task.fallback_calls = 0 /\ task.fallback_called = <<>>

\* An error kind that ServeDir::call does not treat as a miss.
NoMissKind(err) == err \notin {"", "NotFound", "PermissionDenied"}

\* C22: an I/O error of open, metadata or seek whose kind is neither NotFound
\* nor PermissionDenied is the handler's error, unchanged, with no response
\* and no call of the fallback; the selection loop goes on to another
\* candidate only after a NotFound on a candidate tried for an encoding, and
\* any other error on such a candidate, PermissionDenied too, is the last
\* call of the loop and ends the selection.
C22_ErrorsSurface ==
    InFlight =>
        LET loop == LoopCalls(task)
        IN  /\ \A i \in 1..Len(loop) :
                  /\ NoMissKind(loop[i].err) => Surfaced(loop[i].err)
                  /\ i < Len(loop) =>
                        loop[i].err = "NotFound" /\ loop[i].encoding # ""
                  /\ (loop[i].encoding # "" /\ loop[i].err \notin {"", "NotFound"}) =>
                        /\ i = Len(loop)
                        /\ task.pc # "select"
                        /\ task.outcome = loop[i].err
                        /\ task.selected = <<>>
            /\ \A i \in 1..Len(task.file_calls) :
                  NoMissKind(task.file_calls[i].err) =>
                      Surfaced(task.file_calls[i].err) /\ ~task.holding

\* C22 as stated: the loop goes on to another candidate only after a NotFound
\* on a precompressed candidate.
C22_OnlyCompressedRecovered ==
    InFlight =>
        \A i \in 1..Len(LoopCalls(task)) :
            i < Len(LoopCalls(task)) =>
                /\ LoopCalls(task)[i].err = "NotFound"
                /\ LoopCalls(task)[i].encoding \in {"gzip", "br", "deflate"}

\* A handler with a fallback has returned the error of another kind that the
\* open of a precompressed candidate failed with.
C22_Witness ==
    /\ Responded /\ task.this.fallback /\ task.req.method = "GET"
    /\ Surfaced("Other")
    /\ LoopCalls(task) # <<>>
    /\ LoopCalls(task)[Len(LoopCalls(task))] =
          [op |-> "open", path |-> PathNew(<<BrokenTxtGz>>), err |-> "Other",
           encoding |-> "gzip"]

\* The other cases of C22 that the model reaches.
C22_SeekFails ==
    /\ Responded /\ task.this.fallback /\ Surfaced("Other")
    /\ task.file_calls # <<>> /\ task.file_calls[Len(task.file_calls)].op = "seek"
C22_FstatFails ==
    /\ Responded /\ task.this.fallback /\ Surfaced("Other")
    /\ task.file_calls # <<>> /\ task.file_calls[Len(task.file_calls)].op = "metadata"
C22_DeniedOnCompressed ==
    /\ Responded /\ LoopCalls(task) # <<>>
    /\ LoopCalls(task)[Len(LoopCalls(task))].err = "PermissionDenied"
    /\ LoopCalls(task)[Len(LoopCalls(task))].encoding = "gzip"
    /\ task.resp = not_found
\* ------------------------------------------------- the fallback's request

\* Method, URI and headers of two requests are the same.
SameHead(a, b) ==
    /\ a.method = b.method /\ a.uri = b.uri
    /\ a.accept_encoding = b.accept_encoding /\ a.range = b.range
    /\ a.if_modified_since = b.if_modified_since
    /\ a.if_unmodified_since = b.if_unmodified_since

\* C23: every request a fallback is called with has the method, URI, headers
\* and extensions of the request the handler received and carries its body,
\* at a miss as on the method-not-allowed path; the request open_file was
\* called with has the same method, URI and headers and an empty body, so
\* that the body is in one request only.
C23_FallbackGetsRequest ==
    InFlight =>
        /\ \A i \in 1..Len(task.fallback_called) :
              /\ SameHead(task.fallback_called[i].req, task.req)
              /\ task.fallback_called[i].req.extensions = task.req.extensions
              /\ task.fallback_called[i].req.body = task.req.body
        /\ task.fs_calls # <<>> =>
              SameHead(task.open_req, task.req) /\ task.open_req.body = ""

\* A fallback was called at a miss of the pipeline with the body and the
\* extensions the request came with.
C23_Witness ==
    /\ Responded /\ task.fs_calls # <<>> /\ task.req.method = "GET"
    /\ task.req.body = "payload" /\ task.req.extensions = "ext"
    /\ Len(task.fallback_called) = 1
    /\ task.fallback_called[1].req.body = "payload"
    /\ task.open_req.body = ""

\* The method-not-allowed path of C23.
C23_AtTheGate ==
    /\ Responded /\ task.req.method = "POST" /\ task.fs_calls = <<>>
    /\ task.req.body = "payload" /\ Len(task.fallback_called) = 1
    /\ task.fallback_called[1].req = task.req
\* ---------------------------------------------- requests side by side

\* The largest read the body of t can make next.
MostRead(t) == CHOOSE n \in ReadSizes(t) : \A m \in ReadSizes(t) : m <= n

\* The body of a response read on its own, as far as the model reads one.
RECURSIVE Drained(_)
Drained(t) ==
    IF t.pc # "body" \/ Len(t.sent) >= MaxBody THEN t
    ELSE Drained(PollData(t, MostRead(t)))

\* The request of slot s has come to what the same request comes to when
\* run alone on the handler: the same response or error and, of the body,
\* the same bytes as far as it is read.
AsAlone(s) ==
    LET t == Slot(s)
        alone == Answer(handler, t.req)
    IN  t.pc \in {"body", "done"} =>
            /\ t.resp = alone.resp /\ t.error = alone.error
            /\ IsPrefix(t.sent, Drained(alone).sent)
            /\ (t.pc = "done" /\ alone.pc = "body") => t.sent = Drained(alone).sent

\* C24: with two requests in flight on one handler and their suspension
\* points interleaved at will, each comes to the response, and the body, it
\* comes to when run alone.
C24_AsWhenAlone == \A s \in Slots : AsAlone(s)

\* Both requests have a file open on hello.txt, each sought to a range of
\* its own, and one of them has read its body to the end while the other had
\* begun to read.
C24_Witness ==
    /\ task.pc = "done" /\ peer.pc = "body" /\ peer.sent # <<>>
    /\ task.selected = peer.selected /\ task.selected = PathNew(<<HelloTxt>>)
    /\ task.resp.status = 206 /\ peer.resp.status = 206
    /\ task.req.range # peer.req.range
    /\ task.sent # <<>>
\* ------------------------------------------------------ the file handle

\* The request of slot s has a file open, and who owns it: the future, which
\* is at the metadata or at the seek, or the body of the response returned.
OwnedByFuture(s) == Slot(s).holding /\ Slot(s).pc \in {"meta", "seek"}
OwnedByBody(s) == Slot(s).holding /\ Slot(s).pc = "body"

\* A GET was answered, after its file had been opened, with a response that
\* sends nothing of the file, or with an error.
NoFileBytes(s) ==
    /\ Slot(s).pc = "done" /\ Slot(s).req.method = "GET"
    /\ Slot(s).selected # <<>> /\ Slot(s).sent = <<>>
    /\ \/ Slot(s).resp.status \in {304, 412, 416}
       \/ \E i \in 1..Len(Slot(s).file_calls) : Slot(s).file_calls[i].err # ""

\* The file of each request is owned by its future or by its body and by
\* nothing else, no two requests own the same file object, and the file is
\* released once the request is answered without file bytes, read to its
\* end, cancelled or dropped.
OneOwner ==
    /\ \A s \in Slots :
          /\ Slot(s).holding <=> (OwnedByFuture(s) \/ OwnedByBody(s))
          /\ Slot(s).holding <=> files.of[s] # 0
          /\ NoFileBytes(s) => ~Slot(s).holding
          /\ Slot(s).pc \in {"idle", "done", "fallback"} => ~Slot(s).holding
    /\ (task.holding /\ peer.holding) => files.of["task"] # files.of["peer"]

\* The file of the one request: owned as above, and released once the request
\* is answered without file bytes, answered by the fallback, or gone.
Owned ==
    /\ task.holding <=> (OwnedByFuture("task") \/ OwnedByBody("task"))
    /\ NoFileBytes("task") => ~task.holding
    /\ task.pc \in {"idle", "done", "fallback"} => ~task.holding

C25_SeekError ==
    NoFileBytes("task") /\ task.error = "Other" /\ ~task.holding
C25_BodyEnded ==
    task.pc = "done" /\ task.sent # <<>> /\ ~task.holding
C25_InBody == OwnedByBody("task") /\ task.sent # <<>>
\* ------------------------------------------------ the body of a HEAD answer

\* C26: whatever a HEAD request is answered with (200, 206, 304, 307, 404,
\* 412, or 416 for several ranges, for a range that cannot be satisfied and
\* for none), the handler's response has an empty body.
C26_HeadBodyEmpty ==
    (Responded /\ task.req.method = "HEAD" /\ task.error = ""
       /\ task.resp.source = "handler") =>
        /\ task.resp.body = "empty" /\ task.resp.text = ""
        /\ task.sent = <<>> /\ ~task.holding

\* The same for every answer but the 416 to a HEAD that names several ranges.
C26_HeadBodyEmptyButMultipart ==
    (Responded /\ task.req.method = "HEAD" /\ task.error = ""
       /\ task.resp.source = "handler"
       /\ ~(task.resp.status = 416 /\ Len(task.req.range.specs) > 1)) =>
        /\ task.resp.body = "empty" /\ task.resp.text = ""
        /\ task.sent = <<>> /\ ~task.holding
\* -------------------------------------------- when the fallback is called

\* The outcomes at which ServeDir::call turns to the fallback.
MissOutcomes == {"Undecodable", "FileNotFound", "NotFound", "PermissionDenied"}

\* The outcomes the handler answers itself.
OwnOutcomes == {"FileOpened", "Redirect", "NotModified", "PreconditionFailed"}

\* The request is one the method gate hands to the fallback.
AtTheGate ==
    /\ task.req.method \notin {"GET", "HEAD"}
    /\ task.this.call_fallback_on_method_not_allowed
    /\ task.outcome = "" /\ task.fs_calls = <<>> /\ ~task.fallback_and_request

\* C27: the fallback is called at most once for a request, and only at the
\* method gate (flag set) or when the pipeline came to an undecodable path,
\* FileNotFound or an I/O error NotFound or PermissionDenied; when the
\* outcome is FileOpened, Redirect, NotModified or PreconditionFailed it is
\* not called, and the request prepared for it goes unused.
C27_FallbackOnlyOnMiss ==
    InFlight =>
        /\ task.fallback_calls <= 1
        /\ Len(task.fallback_called) = task.fallback_calls
        /\ task.fallback_calls = 1 =>
              /\ task.this.fallback
              /\ AtTheGate \/ (task.outcome \in MissOutcomes /\ task.fallback_and_request)
        /\ task.outcome \in OwnOutcomes =>
              /\ task.fallback_calls = 0
              /\ task.pc # "fallback"
              /\ Responded => task.resp.source = "handler"
              /\ Responded =>
                    task.resp.status =
                        IF task.outcome = "Redirect" THEN 307
                        ELSE IF task.outcome = "NotModified" THEN 304
                        ELSE IF task.outcome = "PreconditionFailed" THEN 412
                        ELSE task.resp.status
              /\ task.outcome = "FileOpened" /\ Responded =>
                    task.resp.status \in {200, 206, 416}

\* A handler with a fallback served the file: the request prepared for the
\* fallback, with the body moved into it, was not used.
C27_Witness ==
    /\ Responded /\ task.this.fallback /\ task.fallback_and_request
    /\ task.outcome = "FileOpened" /\ task.resp.status = 206
    /\ task.fallback_req.body = "payload"
    /\ task.fallback_calls = 0 /\ task.fallback_called = <<>>
\* ------------------------------------------------- the directory check

\* A Directory handler has made the directory check for a GET or HEAD.
C28_Case ==
    /\ InFlight /\ task.this.variant.kind = "Directory"
    /\ task.req.method \in {"GET", "HEAD"}
    /\ DecodePathSegs(task.req.uri.segs).ok
    /\ task.pc \notin {"gate", "decode", "dircheck"}

\* C28: in a Directory handler the first call of the filesystem is is_dir on
\* the decoded path.  For a directory asked for without the final "/" the
\* answer is 307 whatever Range, Accept-Encoding, If-Modified-Since and
\* If-Unmodified-Since say, and no open or metadata call is made.  When
\* is_dir fails, with whatever error, the path is taken not to be a
\* directory: the pipeline goes on to the selection loop with the path as it
\* is, and the error itself gives no redirect, no FileNotFound and no error
\* of the handler.
C28_DirectoryCheckFirst ==
    C28_Case =>
        LET path == PathNew(RequestNames(task.req))
            is_dir == FsIsDir(task.this.filesystem, path)
        IN  /\ task.fs_calls # <<>>
            /\ task.fs_calls[1] = [op |-> "is_dir", path |-> path,
                                    err |-> is_dir.err, encoding |-> ""]
            /\ (RequestIsDir /\ ~EndsWithSlash(task.req.uri)) =>
                  /\ task.pc = "done" /\ task.error = ""
                  /\ task.resp.status = 307 /\ task.resp.body = "empty"
                  /\ Len(task.fs_calls) = 1 /\ task.file_calls = <<>>
                  /\ task.fallback_calls = 0
                  /\ \A i \in 1..Len(task.host_calls) : task.host_calls[i].op = "stat"
            /\ is_dir.err # "" =>
                  /\ task.outcome \notin {"Redirect", "FileNotFound"}
                  /\ task.path_to_file = path
                  /\ Len(task.fs_calls) = 1 =>
                        /\ task.pc = "select" /\ task.error = ""
                        /\ task.outcome = "" /\ task.resp = NoResponse
                  /\ Len(task.fs_calls) > 1 =>
                        task.fs_calls[2].op \in {"open", "metadata"}

\* A directory asked for without the final "/" and with a Range, an
\* Accept-Encoding and both conditional headers was answered 307.
C28_Witness ==
    /\ C28_Case /\ RequestIsDir /\ ~EndsWithSlash(task.req.uri)
    /\ task.req.range # NoRangeHeader /\ task.req.accept_encoding # NoAccept
    /\ task.req.if_modified_since # -1 /\ task.req.if_unmodified_since # -1
    /\ task.resp.status = 307

\* The other half of C28: is_dir failed with an error that is no miss, and
\* the file was served all the same.
C28_ServedAfterError ==
    /\ C28_Case /\ task.fs_calls # <<>> /\ task.fs_calls[1].err = "Other"
    /\ Responded /\ task.resp.status = 200 /\ task.error = ""
\* ------------------------------------------- a precompressed file served

\* The last call of the selection loop.
LastLoopCall == LoopCalls(task)[Len(LoopCalls(task))]

\* A request was answered from a precompressed file: the selection loop
\* ended on a candidate tried for gzip, br or deflate, and the opened file
\* gave no I/O error.
C29_Case ==
    /\ Responded /\ LoopCalls(task) # <<>>
    /\ LastLoopCall.err = "" /\ LastLoopCall.encoding \in {"gzip", "br", "deflate"}
    /\ \A i \in 1..Len(task.file_calls) : task.file_calls[i].err = ""

\* What C29 says of the headers: Content-Type is the MIME type of the path
\* the loop was entered with (of the configured file for ServeFile), and
\* Content-Encoding, Content-Length, Last-Modified, the conditional headers
\* and the Range are held against the metadata of the precompressed file.
C29_Headers ==
    LET sel == LastLoopCall.path
        m == FsMetadata(task.this.filesystem, sel).meta
        ius == task.req.if_unmodified_since
        ims == task.req.if_modified_since
        failed == ius # -1 /\ (~m.modified.known \/ m.modified.secs > ius)
        unmodified == ims # -1 /\ m.modified.known /\ m.modified.secs <= ims
    IN  /\ task.selected = sel /\ task.meta = m
        /\ task.resp.status = 412 <=> failed
        /\ task.resp.status = 304 <=> (~failed /\ unmodified)
        /\ task.outcome = "FileOpened" =>
              /\ task.resp.content_type =
                    IF task.this.variant.kind = "Directory"
                    THEN MimeGuess(task.path_to_file) ELSE task.this.variant.mime
              /\ task.resp.content_encoding = LastLoopCall.encoding
              /\ task.resp.last_modified = LastModified(m.modified)
              /\ task.maybe_range = try_parse_range(task.req.range, m.len)
              /\ task.resp.status = 200 => task.resp.content_length = m.len
              /\ task.resp.status \in {200, 206, 416}

\* The body of a 200 to a GET has no more bytes than Content-Length says,
\* and as many once it has ended.
C29_BodyLength ==
    (task.resp.status = 200 /\ task.req.method = "GET") =>
        /\ Len(task.sent) <= task.resp.content_length
        /\ task.pc = "done" => Len(task.sent) = task.resp.content_length

\* C29: when a precompressed file is served, Content-Type is that of the
\* path asked for, never that of the .gz, .br or .zz file, while
\* Content-Length, Last-Modified, the conditional headers and the Range go
\* by the metadata of the precompressed file, so that Content-Length is the
\* number of bytes in the body of a 200 to a GET.
C29_PrecompressedServed == C29_Case => (C29_Headers /\ C29_BodyLength)

\* The same, the length of the body asked of files on disk only.
C29_PrecompressedServedOnDisk ==
    C29_Case =>
        /\ C29_Headers
        /\ task.this.filesystem.backend = "disk" => C29_BodyLength

\* hello.txt.gz was served from disk as text/plain, its body read to the end.
C29_OnDisk ==
    /\ C29_Case /\ task.pc = "done" /\ task.req.method = "GET"
    /\ task.resp.status = 200 /\ task.this.filesystem.backend = "disk"
    /\ task.resp.content_type = "text/plain"
    /\ MimeGuess(task.selected) = "application/gzip"
    /\ task.sent # <<>>
====
